---- MODULE Spec2Model ----
(***************************************************************************)
(* State-machine model of the BumbleBees simulation core (src/src/main.rs, *)
(* struct Game) together with the entity and system modules it calls.      *)
(*                                                                         *)
(* Units.  The source computes in f32 pixels and f32 seconds.  The model   *)
(* uses integers: lengths are counted in sub-pixels (PX per pixel) and     *)
(* time in ticks (HZ per second).  With the frame times of DtSet,          *)
(* speed * dt is a whole number of sub-pixels for every speed that is a    *)
(* multiple of 50 px/s, which the speeds of the first wave are.            *)
(***************************************************************************)
EXTENDS Integers, Sequences, FiniteSets, TLC

PX == 5 * 6
HZ == 25 * 10

Px(n) == n * PX
Travel(speed, t) == (speed * PX * t) \div HZ

(***************************************************************************)
(* Program constants (src/src/constants.rs, src/src/main.rs).              *)
(***************************************************************************)
SCREEN_WIDTH == 1024
SCREEN_HEIGHT == 575
PLAYER_SPEED == 300
BULLET_SPEED == 700
INITIAL_ENEMY_SPEED == 150
DEFENDER_LINE == 100
COLLISION_RADIUS == 20
POINTS_PER_ENEMY == 10
SPEED_INCREASE_PER_WAVE == 20
BASE_WIDTH_INCREASE == 20
DESCENT_SPEED == 100
DESCENT_STEP == 40
EDGE_MARGIN == 20
INITIAL_BASE_WIDTH == 50
MAX_SHOTS == 3
MAX_NAME_LEN == 20
MAX_SAVED_SCORES == 50

(***************************************************************************)
(* Constants that src/src/main.rs uses and src/src/constants.rs lacks.     *)
(***************************************************************************)
BEE_POINTS == 100
BULLET_SPEED_INCREASE_PER_WAVE == 50
PLAYER_SPEED_INCREASE_PER_WAVE == 20

(***************************************************************************)
(* Bounds of the model and the input domains.                              *)
(***************************************************************************)
MaxNameLen == 1
MaxSessions == 1
MaxInputFrames == 1

\* Frame times get_frame_time() may report, in ticks: 0 (two frames carrying
\* the same timestamp), 0.296 s and 0.592 s.  At 0.296 s a descent takes two
\* frames (29.6 px, then the remaining 10.4 px); at 0.592 s it completes at
\* once.
DtSet == {0, 74, 148}
Chars == {"a"}
TouchXs == {Px(100)}
BeeYs == {(Px(SCREEN_HEIGHT) * 2) \div 5}
BeeXs == {Px(SCREEN_WIDTH) \div 2 - Px(50), Px(-100)}

Min(a, b) == IF a < b THEN a ELSE b
Max(a, b) == IF a > b THEN a ELSE b

(***************************************************************************)
(* u32 (the type of Game::score).  A u32 value v is held as the integer v  *)
(* when v < 2^31 and as v - 2^32 otherwise, so that every value has a      *)
(* 32-bit representation and the scores of an ordinary session are the     *)
(* numbers themselves.                                                     *)
(***************************************************************************)
I32_MAX == 2147483647

\* a + n on u32 for 0 <= n <= I32_MAX, as `+=` computes it when overflow
\* checks are off: modulo 2^32.  With overflow checks on the addition that
\* passes 2^32 panics and the main loop ends there.
WrappingAdd(a, n) ==
  IF a >= 0 /\ a > I32_MAX - n
    THEN ((a - I32_MAX) + n - I32_MAX) - 2
    ELSE a + n

\* a < b on u32
U32Less(a, b) == IF (a < 0) = (b < 0) THEN a < b ELSE b < 0

(***************************************************************************)
(* Enemy                                                                   *)
(***************************************************************************)
EnemyTypes == {"Standard", "Fast", "Tank", "Swooper"}

InitialHealth(t) == IF t = "Tank" THEN 3 ELSE 1

Points(t) ==
  CASE t = "Standard" -> 10
    [] t = "Fast" -> 20
    [] t = "Swooper" -> 30
    [] t = "Tank" -> 50

NewEnemy(x, y, direction, t) ==
  [x |-> x, y |-> y, direction |-> direction, enemy_type |-> t,
   health |-> InitialHealth(t)]

IsDestroyed(e) == e.health <= 0

TakeDamage(e) == [e EXCEPT !.health = @ - 1]

EnemyUpdate(e, speed, t) == [e EXCEPT !.x = @ + e.direction * Travel(speed, t)]

HasBreachedDefenderLine(e) == e.y > Px(SCREEN_HEIGHT - DEFENDER_LINE)

(***************************************************************************)
(* Wave generation (src/src/systems/wave.rs)                               *)
(***************************************************************************)
GetEnemyTypeForRowEarlyTank(row, wave) ==
  CASE row = 0 -> IF wave >= 2 THEN "Fast" ELSE "Standard"
    [] row \in {1, 2} -> "Standard"
    [] row = 3 -> IF wave >= 2 THEN "Tank" ELSE "Standard"
    [] OTHER -> IF wave >= 4 /\ row = 4 THEN "Swooper" ELSE "Standard"

GetEnemyTypeForRow(row, wave) ==
  CASE row = 0 -> IF wave >= 2 THEN "Fast" ELSE "Standard"
    [] row \in {1, 2} -> "Standard"
    [] row = 3 -> IF wave >= 3 THEN "Tank" ELSE "Standard"
    [] OTHER -> IF wave >= 4 /\ row = 4 THEN "Swooper" ELSE "Standard"

GRID_ROWS == 5
GRID_COLUMNS == 10

GenerateGridFormation(wave) ==
  LET formation_width == (GRID_COLUMNS - 1) * 60
      start_x == (SCREEN_WIDTH - formation_width) \div 2
      start_y == 50
  IN [k \in 1..(GRID_ROWS * GRID_COLUMNS) |->
        LET i == (k - 1) \div GRID_ROWS
            j == (k - 1) % GRID_ROWS
        IN NewEnemy(Px(start_x + i * 60), Px(start_y + j * 50),
                    IF j % 2 = 0 THEN 1 ELSE -1,
                    GetEnemyTypeForRow(j, wave))]

VRow(row, wave) ==
  LET center_x == SCREEN_WIDTH \div 2
      offset == row * 40
      y == 80 + row * 45
      t == GetEnemyTypeForRow(row, wave)
  IN [k \in 1..(2 * (row + 1)) |->
        IF k <= row + 1
          THEN NewEnemy(Px(center_x - offset - (k - 1) * 55), Px(y), -1, t)
          ELSE NewEnemy(Px(center_x + offset + (k - row - 2) * 55), Px(y), 1, t)]

RECURSIVE VRows(_, _)
VRows(row, wave) ==
  IF row < 0 THEN <<>> ELSE VRows(row - 1, wave) \o VRow(row, wave)

GenerateVFormation(wave) == VRows(6, wave)

DiamondCounts == <<1, 3, 5, 7, 5, 3, 1>>

DiamondRow(row_idx, wave) ==
  LET center_x == SCREEN_WIDTH \div 2
      center_y == 200
      count == DiamondCounts[row_idx + 1]
      y == center_y - 100 + row_idx * 40
      spacing == 60
      row_width == (count - 1) * spacing
      start_x == center_x - row_width \div 2
      t == GetEnemyTypeForRow(row_idx, wave)
  IN [k \in 1..count |->
        NewEnemy(Px(start_x + (k - 1) * spacing), Px(y),
                 IF row_idx % 2 = 0 THEN 1 ELSE -1, t)]

RECURSIVE DiamondRows(_, _)
DiamondRows(row_idx, wave) ==
  IF row_idx < 0 THEN <<>>
  ELSE DiamondRows(row_idx - 1, wave) \o DiamondRow(row_idx, wave)

GenerateDiamondFormation(wave) == DiamondRows(Len(DiamondCounts) - 1, wave)

SCATTERED_COUNT == 35

\* The random draws of the scattered pattern: rng is a record of three
\* functions over 0..SCATTERED_COUNT-1 giving each enemy's x, y and direction.
ScatteredType(i, wave) ==
  CASE i % 7 = 0 /\ wave >= 2 -> "Fast"
    [] i % 7 \in {1, 2} /\ wave >= 3 -> "Tank"
    [] i % 7 = 3 /\ wave >= 4 -> "Swooper"
    [] OTHER -> "Standard"

GenerateScatteredFormation(wave, rng) ==
  [k \in 1..SCATTERED_COUNT |->
     NewEnemy(rng.x[k - 1], rng.y[k - 1], rng.direction[k - 1],
              ScatteredType(k - 1, wave))]

\* Outcomes of the generator the model draws from: the corners of the ranges
\* x in [100, SCREEN_WIDTH - 100), y in [60, 260), either direction.
ScatterRngs ==
  { [x |-> [i \in 0..(SCATTERED_COUNT - 1) |-> xv],
     y |-> [i \in 0..(SCATTERED_COUNT - 1) |-> yv],
     direction |-> [i \in 0..(SCATTERED_COUNT - 1) |-> IF (i + d) % 2 = 0 THEN 1 ELSE -1]] :
    xv \in {Px(100), Px(SCREEN_WIDTH - 100) - 1},
    yv \in {Px(60), Px(260) - 1},
    d \in {0, 1} }

GenerateWaveAlternating(wave, rng) ==
  CASE wave % 2 = 1 -> GenerateGridFormation(wave)
    [] wave % 4 = 2 -> GenerateVFormation(wave)
    [] wave % 4 = 0 -> GenerateScatteredFormation(wave, rng)

GenerateWave(wave, rng) ==
  CASE wave % 4 = 1 -> GenerateGridFormation(wave)
    [] wave % 4 = 2 -> GenerateVFormation(wave)
    [] wave % 4 = 3 -> GenerateDiamondFormation(wave)
    [] wave % 4 = 0 -> GenerateScatteredFormation(wave, rng)

\* Only the scattered pattern consumes random draws.
NoRng == CHOOSE r \in ScatterRngs : TRUE

\* The two builds of generate_scattered_formation.
Targets == {"desktop", "wasm32"}

\* The draws of SmallRng::seed_from_u64(wave): one fixed outcome per wave.
SeededRng(wave) == NoRng

\* The draws a call of generate_wave(wave) can see in a build: off wasm32 the
\* generator is created from the wave number inside the call; on wasm32 the
\* call draws from the generator of the whole program, whose state is left
\* where the earlier draws (formations, bee timers) have put it.
TargetRngs(target, wave) ==
  IF wave % 4 # 0 THEN {NoRng}
  ELSE IF target = "desktop" THEN {SeededRng(wave)}
  ELSE ScatterRngs

WaveRngs(wave) == UNION {TargetRngs(t, wave) : t \in Targets}

(***************************************************************************)
(* Bullet (src/src/entities/bullet.rs, called as in src/src/main.rs)       *)
(***************************************************************************)
NewBullet(x, y) == [x |-> x, y |-> y]

BulletUpdate(b, t, speed) == [b EXCEPT !.y = @ - Travel(speed, t)]

IsOutOfBounds(b) == b.y < 0 \/ b.x < 0 \/ b.x > Px(SCREEN_WIDTH)

(***************************************************************************)
(* Player (src/src/entities/player.rs)                                     *)
(***************************************************************************)
NewPlayer ==
  [x |-> Px(SCREEN_WIDTH) \div 2, base_width |-> Px(INITIAL_BASE_WIDTH),
   available_shots |-> 1]

Clamp(v, lo, hi) == IF v < lo THEN lo ELSE IF v > hi THEN hi ELSE v

ClampPosition(p) ==
  [p EXCEPT !.x = Clamp(@, p.base_width \div 2, Px(SCREEN_WIDTH) - p.base_width \div 2)]

\* move_left without the clamp.
MoveLeftUnclamped(p, t, speed) == [p EXCEPT !.x = @ - Travel(speed, t)]

MoveLeft(p, t, speed) == ClampPosition([p EXCEPT !.x = @ - Travel(speed, t)])

MoveRight(p, t, speed) == ClampPosition([p EXCEPT !.x = @ + Travel(speed, t)])

\* shoot with the first bullet on the left end of the base.
PlayerShootFromEnd(p) ==
  LET offset == p.base_width \div (p.available_shots + 1)
  IN [i \in 1..p.available_shots |->
        NewBullet(p.x - p.base_width \div 2 + offset * (i - 1), Px(SCREEN_HEIGHT - 50))]

PlayerShoot(p) ==
  LET offset == p.base_width \div (p.available_shots + 1)
  IN [i \in 1..p.available_shots |->
        NewBullet(p.x - p.base_width \div 2 + offset * i, Px(SCREEN_HEIGHT - 50))]

\* upgrade adding the shot without widening the base.
PlayerUpgradeNarrow(p) ==
  IF p.available_shots < MAX_SHOTS
    THEN [p EXCEPT !.available_shots = @ + 1]
    ELSE p

\* upgrade without the cap.
PlayerUpgradeUncapped(p) ==
  [p EXCEPT !.available_shots = @ + 1, !.base_width = @ + Px(BASE_WIDTH_INCREASE)]

PlayerUpgrade(p) ==
  IF p.available_shots < MAX_SHOTS
    THEN [p EXCEPT !.available_shots = @ + 1, !.base_width = @ + Px(BASE_WIDTH_INCREASE)]
    ELSE p

PlayerReset(p) ==
  [p EXCEPT !.x = Px(SCREEN_WIDTH) \div 2, !.base_width = Px(INITIAL_BASE_WIDTH),
            !.available_shots = 1]

(***************************************************************************)
(* Collision system (src/src/systems/collision.rs)                         *)
(***************************************************************************)
\* CheckCollision counting a bullet at exactly the radius as a hit.
CheckCollisionInclusive(b, e) ==
  LET dx == e.x - b.x
      dy == e.y - b.y
  IN dx * dx + dy * dy <= Px(COLLISION_RADIUS) * Px(COLLISION_RADIUS)

CheckCollision(b, e) ==
  LET dx == e.x - b.x
      dy == e.y - b.y
  IN dx * dx + dy * dy < Px(COLLISION_RADIUS) * Px(COLLISION_RADIUS)

\* FirstHit without the skip of the enemies already destroyed in the pass.
FirstHitAnyEnemy(b, es) ==
  LET S == {i \in DOMAIN es : CheckCollision(b, es[i])}
  IN IF S = {} THEN 0 ELSE CHOOSE i \in S : \A j \in S : i <= j

\* Index of the first enemy, in iteration order, that is not destroyed and
\* collides with the bullet; 0 when there is none.
FirstHit(b, es) ==
  LET S == {i \in DOMAIN es : ~IsDestroyed(es[i]) /\ CheckCollision(b, es[i])}
  IN IF S = {} THEN 0 ELSE CHOOSE i \in S : \A j \in S : i <= j

SwapRemove(s, i) ==
  IF i = Len(s) THEN SubSeq(s, 1, Len(s) - 1)
  ELSE [SubSeq(s, 1, Len(s) - 1) EXCEPT ![i] = s[Len(s)]]

\* CollideFrom with bullets that fly on after a hit.
RECURSIVE CollideFromPiercing(_, _, _, _)
CollideFromPiercing(bullet_idx, es, bs, info) ==
  IF bullet_idx > Len(bs)
    THEN [enemies |-> es, bullets |-> bs, destroyed_info |-> info]
    ELSE LET h == FirstHit(bs[bullet_idx], es)
         IN IF h = 0
              THEN CollideFromPiercing(bullet_idx + 1, es, bs, info)
              ELSE LET hit == TakeDamage(es[h])
                   IN CollideFromPiercing(bullet_idx + 1, [es EXCEPT ![h] = hit], bs,
                                          IF IsDestroyed(hit)
                                            THEN Append(info, <<hit.x, hit.y, Points(hit.enemy_type)>>)
                                            ELSE info)

\* CollideFrom reporting every enemy that is hit, destroyed or not.
RECURSIVE CollideFromReportingHits(_, _, _, _)
CollideFromReportingHits(bullet_idx, es, bs, info) ==
  IF bullet_idx > Len(bs)
    THEN [enemies |-> es, bullets |-> bs, destroyed_info |-> info]
    ELSE LET h == FirstHit(bs[bullet_idx], es)
         IN IF h = 0
              THEN CollideFromReportingHits(bullet_idx + 1, es, bs, info)
              ELSE LET hit == TakeDamage(es[h])
                   IN CollideFromReportingHits(bullet_idx, [es EXCEPT ![h] = hit],
                                               SwapRemove(bs, bullet_idx),
                                               Append(info, <<hit.x, hit.y, Points(hit.enemy_type)>>))

RECURSIVE CollideFrom(_, _, _, _)
CollideFrom(bullet_idx, es, bs, info) ==
  IF bullet_idx > Len(bs)
    THEN [enemies |-> es, bullets |-> bs, destroyed_info |-> info]
    ELSE LET h == FirstHit(bs[bullet_idx], es)
         IN IF h = 0
              THEN CollideFrom(bullet_idx + 1, es, bs, info)
              ELSE LET hit == TakeDamage(es[h])
                   IN CollideFrom(bullet_idx, [es EXCEPT ![h] = hit],
                                  SwapRemove(bs, bullet_idx),
                                  IF IsDestroyed(hit)
                                    THEN Append(info, <<hit.x, hit.y, Points(hit.enemy_type)>>)
                                    ELSE info)

Alive(e) == ~IsDestroyed(e)

ProcessCollisions(es, bs) ==
  LET r == CollideFrom(1, es, bs, <<>>)
  IN [r EXCEPT !.enemies = SelectSeq(r.enemies, Alive)]

(***************************************************************************)
(* Highscore manager (src/src/highscore.rs): the cached, sorted entries.   *)
(***************************************************************************)
\* push, stable sort by score descending, truncate
\* save_highscore keeping one entry for each name.
SaveHighscoreOnePerName(entries, name, score) ==
  IF \E i \in DOMAIN entries : entries[i].name = name
    THEN entries
    ELSE entries \o <<[name |-> name, score |-> score]>>

SaveHighscore(entries, name, score) ==
  LET ahead == {i \in DOMAIN entries : ~U32Less(entries[i].score, score)}
      k == Cardinality(ahead)
      merged == SubSeq(entries, 1, k) \o <<[name |-> name, score |-> score]>>
                  \o SubSeq(entries, k + 1, Len(entries))
  IN SubSeq(merged, 1, Min(Len(merged), MAX_SAVED_SCORES))

(***************************************************************************)
(* The score file of the desktop build.  A line is a sequence of           *)
(* characters; BadByte stands for a byte sequence that is not UTF-8.       *)
(***************************************************************************)
Digits == <<"0", "1", "2", "3", "4", "5", "6", "7", "8", "9">>
BadByte == "0xFF"

IsDigit(c) == \E d \in DOMAIN Digits : Digits[d] = c
DigitValue(c) == (CHOOSE d \in DOMAIN Digits : Digits[d] = c) - 1

\* Display of a number below 2^31.
RECURSIVE FormatNat(_)
FormatNat(n) ==
  IF n < 10 THEN <<Digits[n + 1]>> ELSE FormatNat(n \div 10) \o <<Digits[(n % 10) + 1]>>

\* Display of a u32: a value v >= 2^31 is held as v - 2^32, and
\* 2^31 = 214748364 * 10 + 8.
FormatU32(v) ==
  IF v >= 0 THEN FormatNat(v)
  ELSE LET a == (v + I32_MAX) + 1
       IN FormatNat(214748364 + a \div 10 + ((a % 10) + 8) \div 10)
            \o <<Digits[(((a % 10) + 8) % 10) + 1]>>

\* writeln!(file, "{}, {}", entry.name, entry.score)
FormatLine(entry) == entry.name \o <<",", " ">> \o FormatU32(entry.score)

NoFile == [exists |-> FALSE, readable |-> FALSE, lines |-> <<>>]

\* save_to_file: the file is created or truncated and every entry written.
\* A file that cannot be opened for writing is left as it is, which the
\* model does not follow: the disk accepts the write.
SaveToFile(entries) ==
  [exists |-> TRUE, readable |-> TRUE,
   lines |-> [i \in DOMAIN entries |-> FormatLine(entries[i])]]

\* str::trim
RECURSIVE TrimStart(_)
TrimStart(t) == IF t # <<>> /\ Head(t) = " " THEN TrimStart(Tail(t)) ELSE t

RECURSIVE TrimEnd(_)
TrimEnd(t) ==
  IF t # <<>> /\ t[Len(t)] = " " THEN TrimEnd(SubSeq(t, 1, Len(t) - 1)) ELSE t

Trim(t) == TrimEnd(TrimStart(t))

\* str::split_once(','): the position of the first comma, 0 when there is none
CommaAt(line) ==
  IF \E i \in DOMAIN line : line[i] = ","
    THEN CHOOSE i \in DOMAIN line : line[i] = "," /\ \A j \in 1..(i - 1) : line[j] # ","
    ELSE 0

RECURSIVE StripZeros(_)
StripZeros(t) == IF Len(t) > 1 /\ Head(t) = "0" THEN StripZeros(Tail(t)) ELSE t

RECURSIVE NatValue(_)
NatValue(t) ==
  IF t = <<>> THEN 0 ELSE NatValue(SubSeq(t, 1, Len(t) - 1)) * 10 + DigitValue(t[Len(t)])

\* str::parse::<u32>: an optional '+', then one or more decimal digits whose
\* value is at most 4294967295 = 429496729 * 10 + 5.
ParseU32(str) ==
  LET body == IF str # <<>> /\ Head(str) = "+" THEN Tail(str) ELSE str
      t == StripZeros(body)
      acc == NatValue(SubSeq(t, 1, Len(t) - 1))
      d == DigitValue(t[Len(t)])
  IN IF body = <<>> \/ \E i \in DOMAIN body : ~IsDigit(body[i])
       THEN [ok |-> FALSE, value |-> 0]
     ELSE IF Len(t) < 10
       THEN [ok |-> TRUE, value |-> NatValue(t)]
     ELSE IF Len(t) > 10 \/ acc > 429496729 \/ (acc = 429496729 /\ d > 5)
       THEN [ok |-> FALSE, value |-> 0]
     ELSE IF acc < 214748364 \/ (acc = 214748364 /\ d <= 7)
       THEN [ok |-> TRUE, value |-> acc * 10 + d]
     ELSE [ok |-> TRUE, value |-> (acc - 429496728) * 10 + (d - 16)]

\* reader.lines().map_while(Result::ok): the lines up to the first one that
\* is not valid UTF-8
RECURSIVE ReadLines(_)
ReadLines(lines) ==
  IF lines = <<>> \/ (\E i \in DOMAIN Head(lines) : Head(lines)[i] = BadByte)
    THEN <<>>
    ELSE <<Head(lines)>> \o ReadLines(Tail(lines))

\* The body of the loop of load_from_file for one line.
ParseLine(line) ==
  LET c == CommaAt(line)
      parsed == ParseU32(Trim(SubSeq(line, c + 1, Len(line))))
  IN IF c > 0 /\ parsed.ok
       THEN <<[name |-> Trim(SubSeq(line, 1, c - 1)), score |-> parsed.value]>>
       ELSE <<>>

RECURSIVE ParseLines(_)
ParseLines(lines) ==
  IF lines = <<>> THEN <<>> ELSE ParseLine(Head(lines)) \o ParseLines(Tail(lines))

\* entries.sort_by(|a, b| b.score.cmp(&a.score)): stable, highest first
RECURSIVE SortByScore(_)
SortByScore(entries) ==
  IF entries = <<>> THEN <<>>
  ELSE LET front == SortByScore(SubSeq(entries, 1, Len(entries) - 1))
           e == entries[Len(entries)]
           k == Cardinality({i \in DOMAIN front : ~U32Less(front[i].score, e.score)})
       IN SubSeq(front, 1, k) \o <<e>> \o SubSeq(front, k + 1, Len(front))

LoadFromFile(file) ==
  IF ~file.exists \/ ~file.readable
    THEN <<>>
    ELSE SortByScore(ParseLines(ReadLines(file.lines)))

\* load_highscores: the cached entries
LoadHighscores(entries) == entries

\* get_top_scores: load, then truncate(n)
GetTopScores(entries, n) ==
  IF Len(LoadHighscores(entries)) > n
    THEN SubSeq(LoadHighscores(entries), 1, n)
    ELSE LoadHighscores(entries)

(***************************************************************************)
(* Game (src/src/main.rs).  The variable game holds the fields of struct   *)
(* Game that the simulation reads or writes; textures, sounds, background  *)
(* layers and explosion animations are presentation only and left out.     *)
(*   pc   position in the main loop: "input" before handle_input, then the *)
(*        calls of update() in their order                                 *)
(*   dt   the frame time read at the top of the loop                       *)
(*   sessions, input_frames   counters that bound the environment          *)
(***************************************************************************)
VARIABLES game, pc, dt, sessions, input_frames

vars == <<game, pc, dt, sessions, input_frames>>

NewGame ==
  [player |-> NewPlayer,
   bullets |-> <<>>,
   enemies |-> GenerateWave(1, NoRng),
   enemy_speed |-> INITIAL_ENEMY_SPEED,
   bullet_speed |-> BULLET_SPEED,
   player_speed |-> PLAYER_SPEED,
   descent_distance |-> 0,
   wave_number |-> 1,
   state |-> "Menu",
   score |-> 0,
   player_name |-> <<>>,
   highscores |-> <<>>,
   score_file |-> NoFile,
   just_reset |-> FALSE,
   bee_y |-> Px(SCREEN_HEIGHT) \div 3,
   bee_active |-> FALSE,
   touch_shooting |-> FALSE]

\* Reset leaving the wave number and the enemy speed of the session.
ResetKeepingWave(g) ==
  [g EXCEPT !.player = PlayerReset(@),
            !.bullets = <<>>,
            !.enemies = GenerateWave(1, NoRng),
            !.bullet_speed = BULLET_SPEED,
            !.player_speed = PLAYER_SPEED,
            !.descent_distance = 0,
            !.score = 0,
            !.state = "Menu",
            !.just_reset = TRUE,
            !.touch_shooting = FALSE,
            !.player_name = <<>>]

\* Reset leaving the bullets of the session in the collection.
ResetKeepingBullets(g) ==
  [ResetKeepingWave(g) EXCEPT
     !.bullets = g.bullets,
     !.enemy_speed = INITIAL_ENEMY_SPEED,
     !.wave_number = 1]

\* Reset saving the score once more before it returns to the menu.
ResetSaving(g) ==
  [ResetKeepingWave(g) EXCEPT
     !.enemy_speed = INITIAL_ENEMY_SPEED,
     !.wave_number = 1,
     !.highscores = IF g.player_name # <<>> /\ U32Less(0, g.score)
                      THEN SaveHighscore(@, g.player_name, g.score)
                      ELSE @,
     !.score_file = IF g.player_name # <<>> /\ U32Less(0, g.score)
                      THEN SaveToFile(SaveHighscore(g.highscores, g.player_name, g.score))
                      ELSE @]

Reset(g) ==
  [g EXCEPT !.player = PlayerReset(@),
            !.bullets = <<>>,
            !.enemies = GenerateWave(1, NoRng),
            !.enemy_speed = INITIAL_ENEMY_SPEED,
            !.bullet_speed = BULLET_SPEED,
            !.player_speed = PLAYER_SPEED,
            !.descent_distance = 0,
            !.wave_number = 1,
            !.score = 0,
            !.state = "Menu",
            !.just_reset = TRUE,
            !.touch_shooting = FALSE,
            !.player_name = <<>>]

\* StartGame leaving the bullets of the previous session in flight.
StartGameKeepingBullets(g) ==
  IF g.player_name # <<>>
    THEN [g EXCEPT !.state = "Playing",
                   !.score = 0,
                   !.wave_number = 1,
                   !.enemies = GenerateWave(1, NoRng),
                   !.player = PlayerReset(@),
                   !.enemy_speed = INITIAL_ENEMY_SPEED,
                   !.descent_distance = 0]
    ELSE g

StartGame(g) ==
  IF g.player_name # <<>>
    THEN [g EXCEPT !.state = "Playing",
                   !.score = 0,
                   !.wave_number = 1,
                   !.enemies = GenerateWave(1, NoRng),
                   !.bullets = <<>>,
                   !.player = PlayerReset(@),
                   !.enemy_speed = INITIAL_ENEMY_SPEED,
                   !.descent_distance = 0]
    ELSE g

\* Shoot without the test of the game state.
ShootAnyState(g) == [g EXCEPT !.bullets = @ \o PlayerShoot(g.player)]

Shoot(g) ==
  IF g.state = "Playing"
    THEN [g EXCEPT !.bullets = @ \o PlayerShoot(g.player)]
    ELSE g

\* update_bullets without the retain.
UpdateBulletsUnpruned(g, t) ==
  [g EXCEPT !.bullets = [i \in DOMAIN @ |-> BulletUpdate(@[i], t, g.bullet_speed)]]

UpdateBullets(g, t) ==
  LET moved == [i \in DOMAIN g.bullets |-> BulletUpdate(g.bullets[i], t, g.bullet_speed)]
      InBounds(b) == ~IsOutOfBounds(b)
  IN [g EXCEPT !.bullets = SelectSeq(moved, InBounds)]

\* Descend with the enemies also drifting sideways while they descend.
DescendDrifting(g, t) ==
  LET descent_this_frame == Travel(DESCENT_SPEED, t)
      step == Min(descent_this_frame, g.descent_distance)
  IN [g EXCEPT !.enemies = [i \in DOMAIN @ |->
                              [@[i] EXCEPT !.y = @ + step,
                                           !.x = @ + g.enemies[i].direction * Travel(g.enemy_speed, t)]],
               !.descent_distance = @ - step]

\* Descend without the cap on the last frame's step.
DescendOvershooting(g, t) ==
  LET descent_this_frame == Travel(DESCENT_SPEED, t)
  IN [g EXCEPT !.enemies = [i \in DOMAIN @ |-> [@[i] EXCEPT !.y = @ + descent_this_frame]],
               !.descent_distance = Max(0, @ - descent_this_frame)]

\* Descend with the frame time truncated to whole seconds.
DescendStalled(g, t) ==
  LET descent_this_frame == Travel(DESCENT_SPEED, (t \div HZ) * HZ)
  IN IF descent_this_frame >= g.descent_distance
       THEN [g EXCEPT !.enemies = [i \in DOMAIN @ |-> [@[i] EXCEPT !.y = @ + g.descent_distance]],
                      !.descent_distance = 0]
       ELSE [g EXCEPT !.enemies = [i \in DOMAIN @ |-> [@[i] EXCEPT !.y = @ + descent_this_frame]],
                      !.descent_distance = @ - descent_this_frame]

\* Descend lowering only the enemies that move right.
DescendRightMovers(g, t) ==
  LET descent_this_frame == Travel(DESCENT_SPEED, t)
      step == Min(descent_this_frame, g.descent_distance)
  IN [g EXCEPT !.enemies = [i \in DOMAIN @ |->
                              IF @[i].direction > 0 THEN [@[i] EXCEPT !.y = @ + step]
                              ELSE @[i]],
               !.descent_distance = @ - step]

\* The descent branch of update_enemies.
Descend(g, t) ==
  LET descent_this_frame == Travel(DESCENT_SPEED, t)
  IN IF descent_this_frame >= g.descent_distance
       THEN [g EXCEPT !.enemies = [i \in DOMAIN @ |-> [@[i] EXCEPT !.y = @ + g.descent_distance]],
                      !.descent_distance = 0]
       ELSE [g EXCEPT !.enemies = [i \in DOMAIN @ |-> [@[i] EXCEPT !.y = @ + descent_this_frame]],
                      !.descent_distance = @ - descent_this_frame]

\* EdgeReached without the test of the direction of travel.
EdgeReachedEitherWay(es) ==
  \E i \in DOMAIN es :
     \/ es[i].x >= Px(SCREEN_WIDTH - EDGE_MARGIN)
     \/ es[i].x <= Px(EDGE_MARGIN)

EdgeReached(es) ==
  \E i \in DOMAIN es :
     \/ es[i].direction > 0 /\ es[i].x >= Px(SCREEN_WIDTH - EDGE_MARGIN)
     \/ es[i].direction < 0 /\ es[i].x <= Px(EDGE_MARGIN)

\* ReverseAndClamp without the clamp.
ReverseOnly(e) == [e EXCEPT !.direction = -@]

ReverseAndClamp(e) ==
  [e EXCEPT !.direction = -@,
            !.x = IF @ < Px(EDGE_MARGIN) THEN Px(EDGE_MARGIN)
                  ELSE IF @ > Px(SCREEN_WIDTH - EDGE_MARGIN) THEN Px(SCREEN_WIDTH - EDGE_MARGIN)
                  ELSE @]

\* The horizontal branch of update_enemies.
Advance(g, t) ==
  LET moved == [i \in DOMAIN g.enemies |-> EnemyUpdate(g.enemies[i], g.enemy_speed, t)]
  IN IF EdgeReached(moved)
       THEN [g EXCEPT !.enemies = [i \in DOMAIN moved |-> ReverseAndClamp(moved[i])],
                      !.descent_distance = Px(DESCENT_STEP)]
       ELSE [g EXCEPT !.enemies = moved]

\* The breach test against the bottom of the screen instead of the line.
BreachedBottom(es) == \E i \in DOMAIN es : es[i].y > Px(SCREEN_HEIGHT)

Breached(es) == \E i \in DOMAIN es : HasBreachedDefenderLine(es[i])

\* The defender-line check that ends update_enemies.
CheckBreach(g) ==
  IF Breached(g.enemies)
    THEN IF g.player_name # <<>> /\ U32Less(0, g.score)
           THEN LET saved == SaveHighscore(g.highscores, g.player_name, g.score)
                IN [g EXCEPT !.state = "GameOver",
                             !.highscores = saved,
                             !.score_file = SaveToFile(saved)]
           ELSE [g EXCEPT !.state = "GameOver"]
    ELSE g

UpdateEnemies(g, t) ==
  CheckBreach(IF g.descent_distance > 0 THEN Descend(g, t) ELSE Advance(g, t))

\* The flying bee.  Its spawn timer and its speed are set from constants
\* (BEE_SPAWN_MIN_TIME, BEE_SPAWN_MAX_TIME, BEE_FLY_SPEED) that
\* src/src/constants.rs lacks, so the model keeps bee_active and bee_y and takes the
\* timer's expiry, the bee's leaving the screen and the bee's current x from
\* the environment: env.spawn (bee_next_spawn_timer <= 0), env.y (the height
\* drawn at a spawn), env.gone (bee_x < -100).
UpdateBee(g, env) ==
  IF ~g.bee_active
    THEN IF env.spawn
           THEN [g EXCEPT !.bee_active = TRUE, !.bee_y = env.y]
           ELSE g
    ELSE [g EXCEPT !.bee_active = ~env.gone]

BeeHits(bee_x, bee_y, b) ==
  LET bee_radius == 50
      dx == b.x - (bee_x + Px(50))
      dy == b.y - (bee_y + Px(50))
      reach == Px(bee_radius + COLLISION_RADIUS)
  IN dx * dx + dy * dy < reach * reach

UpdateBeeCollisions(g, bee_x) ==
  IF ~g.bee_active THEN g
  ELSE LET Missed(b) == ~BeeHits(bee_x, g.bee_y, b)
           kept == SelectSeq(g.bullets, Missed)
       IN IF Len(kept) < Len(g.bullets)
            THEN [g EXCEPT !.bullets = kept,
                           !.score = WrappingAdd(@, BEE_POINTS),
                           !.bee_active = FALSE]
            ELSE g

UpdateCollisions(g) ==
  LET r == ProcessCollisions(g.enemies, g.bullets)
  IN [g EXCEPT !.enemies = r.enemies,
               !.bullets = r.bullets,
               !.score = IF r.destroyed_info # <<>>
                           THEN WrappingAdd(@, Len(r.destroyed_info) * POINTS_PER_ENEMY)
                           ELSE @]

\* CheckWaveComplete upgrading the player twice.
CheckWaveCompleteUpgradingTwice(g, rng) ==
  IF g.enemies = <<>>
    THEN [g EXCEPT !.wave_number = @ + 1,
                   !.enemy_speed = @ + SPEED_INCREASE_PER_WAVE,
                   !.bullet_speed = @ + BULLET_SPEED_INCREASE_PER_WAVE,
                   !.player_speed = @ + PLAYER_SPEED_INCREASE_PER_WAVE,
                   !.player = PlayerUpgrade(PlayerUpgrade(@)),
                   !.enemies = GenerateWave(g.wave_number + 1, rng)]
    ELSE g

\* CheckWaveComplete leaving the enemy speed of the wave before.
CheckWaveCompleteSameSpeed(g, rng) ==
  IF g.enemies = <<>>
    THEN [g EXCEPT !.wave_number = @ + 1,
                   !.bullet_speed = @ + BULLET_SPEED_INCREASE_PER_WAVE,
                   !.player_speed = @ + PLAYER_SPEED_INCREASE_PER_WAVE,
                   !.player = PlayerUpgrade(@),
                   !.enemies = GenerateWave(g.wave_number + 1, rng)]
    ELSE g

\* CheckWaveComplete moving on when at most one enemy is left.
CheckWaveCompleteEarly(g, rng) ==
  IF Len(g.enemies) <= 1
    THEN [g EXCEPT !.wave_number = @ + 1,
                   !.enemy_speed = @ + SPEED_INCREASE_PER_WAVE,
                   !.bullet_speed = @ + BULLET_SPEED_INCREASE_PER_WAVE,
                   !.player_speed = @ + PLAYER_SPEED_INCREASE_PER_WAVE,
                   !.player = PlayerUpgrade(@),
                   !.enemies = GenerateWave(g.wave_number + 1, rng)]
    ELSE g

CheckWaveComplete(g, rng) ==
  IF g.enemies = <<>>
    THEN [g EXCEPT !.wave_number = @ + 1,
                   !.enemy_speed = @ + SPEED_INCREASE_PER_WAVE,
                   !.bullet_speed = @ + BULLET_SPEED_INCREASE_PER_WAVE,
                   !.player_speed = @ + PLAYER_SPEED_INCREASE_PER_WAVE,
                   !.player = PlayerUpgrade(@),
                   !.enemies = GenerateWave(g.wave_number + 1, rng)]
    ELSE g

(***************************************************************************)
(* handle_input (src/src/main.rs): one arm per game state.  The argument   *)
(* in is what the input collaborator reports for the frame.                *)
(***************************************************************************)
\* The frames the input collaborator reports in the menu: no input, or one
\* event (a touch on the start button, a key, a typed character, a click on
\* the start button, the space key).
NoMenuInput ==
  [touch_start |-> FALSE, key |-> "None", ch |-> "None", click_start |-> FALSE,
   space |-> FALSE]

MenuInputs ==
  {NoMenuInput, [NoMenuInput EXCEPT !.touch_start = TRUE],
   [NoMenuInput EXCEPT !.click_start = TRUE], [NoMenuInput EXCEPT !.space = TRUE]}
    \cup {[NoMenuInput EXCEPT !.key = k] : k \in {"Backspace", "Enter"}}
    \cup {[NoMenuInput EXCEPT !.ch = c] : c \in {"-"} \cup Chars}

IsAlphanumeric(c) == c \in Chars

HandleInputMenu(g, in) ==
  IF g.just_reset
    THEN [g EXCEPT !.just_reset = FALSE]
    ELSE LET g1 == IF in.touch_start THEN StartGame(g) ELSE g
             g2 == CASE in.key = "Backspace" ->
                         [g1 EXCEPT !.player_name =
                            IF @ = <<>> THEN @ ELSE SubSeq(@, 1, Len(@) - 1)]
                      [] in.key = "Enter" -> StartGame(g1)
                      [] OTHER -> g1
             g3 == IF in.ch # "None" /\ IsAlphanumeric(in.ch)
                      /\ Len(g2.player_name) < MAX_NAME_LEN
                     THEN [g2 EXCEPT !.player_name = Append(@, in.ch)]
                     ELSE g2
             g4 == IF in.click_start THEN StartGame(g3) ELSE g3
         IN IF in.space THEN StartGame(g4) ELSE g4

\* The frames the input collaborator reports while Playing: no input, one
\* touch left of the centre, one touch right of it, one key, or a touch on
\* the right together with the space key (two fire intents in one frame).
NoKeys == [touches |-> <<>>, left |-> FALSE, right |-> FALSE, space |-> FALSE]

PlayingInputs ==
  {NoKeys}
    \cup {[NoKeys EXCEPT !.touches = <<x>>] : x \in TouchXs \cup {Px(SCREEN_WIDTH) \div 2}}
    \cup {[NoKeys EXCEPT !.left = TRUE], [NoKeys EXCEPT !.right = TRUE],
          [NoKeys EXCEPT !.space = TRUE],
          [NoKeys EXCEPT !.touches = <<Px(SCREEN_WIDTH) \div 2>>, !.space = TRUE]}

IdleInput == NoKeys

RECURSIVE TouchMove(_, _, _)
TouchMove(p, touches, k) ==
  IF k > Len(touches) THEN p
  ELSE TouchMove(IF touches[k] < Px(SCREEN_WIDTH) \div 2
                   THEN [p EXCEPT !.x = Clamp(touches[k], p.base_width \div 2,
                                              Px(SCREEN_WIDTH) - p.base_width \div 2)]
                   ELSE p,
                 touches, k + 1)

HandleInputPlaying(g, in, t) ==
  LET new_touch_shooting ==
        \E k \in DOMAIN in.touches : in.touches[k] >= Px(SCREEN_WIDTH) \div 2
      g0 == [g EXCEPT !.player = TouchMove(@, in.touches, 1)]
      g1 == IF in.touches # <<>>
              THEN [(IF new_touch_shooting /\ ~g.touch_shooting THEN Shoot(g0) ELSE g0)
                      EXCEPT !.touch_shooting = new_touch_shooting]
              ELSE [g EXCEPT !.touch_shooting = FALSE]
      g2 == IF in.left THEN [g1 EXCEPT !.player = MoveLeft(@, t, g1.player_speed)] ELSE g1
      g3 == IF in.right THEN [g2 EXCEPT !.player = MoveRight(@, t, g2.player_speed)] ELSE g2
  IN IF in.space THEN Shoot(g3) ELSE g3

GameOverInputs == [touch_start : BOOLEAN, key_r : BOOLEAN]

\* HandleInputGameOver restarting the session at once instead of resetting.
HandleInputGameOverRestart(g, in) ==
  IF in.touch_start \/ in.key_r
    THEN [g EXCEPT !.state = "Playing", !.score = 0, !.bullets = <<>>,
                   !.enemies = GenerateWave(1, NoRng), !.descent_distance = 0]
    ELSE g

HandleInputGameOver(g, in) ==
  LET g1 == IF in.touch_start THEN Reset(g) ELSE g
  IN IF in.key_r THEN Reset(g1) ELSE g1

(***************************************************************************)
(* The main loop: dt = get_frame_time(); handle_input(); update(dt).       *)
(***************************************************************************)
Init ==
  /\ game = NewGame
  /\ pc = "handle_input"
  /\ dt = 0
  /\ sessions = 0
  /\ input_frames = 0

InputMenu ==
  /\ pc = "handle_input"
  /\ game.state = "Menu"
  /\ \E t \in DtSet, in \in MenuInputs :
       LET g == HandleInputMenu(game, in)
       IN /\ Len(g.player_name) <= MaxNameLen
          /\ g.state = "Playing" => sessions < MaxSessions
          /\ game' = g
          /\ sessions' = IF g.state = "Playing" THEN sessions + 1 ELSE sessions
          /\ dt' = t
  /\ pc' = "update"
  /\ UNCHANGED input_frames

InputPlaying ==
  /\ pc = "handle_input"
  /\ game.state = "Playing"
  /\ \E t \in DtSet, in \in PlayingInputs :
       /\ in # IdleInput => input_frames < MaxInputFrames
       /\ game' = HandleInputPlaying(game, in, t)
       /\ input_frames' = IF in # IdleInput THEN input_frames + 1 ELSE input_frames
       /\ dt' = t
  /\ pc' = "update"
  /\ UNCHANGED sessions

InputGameOver ==
  /\ pc = "handle_input"
  /\ game.state = "GameOver"
  /\ \E t \in DtSet, in \in GameOverInputs :
       /\ game' = HandleInputGameOver(game, in)
       /\ dt' = t
  /\ pc' = "update"
  /\ UNCHANGED <<sessions, input_frames>>

\* update() in Menu and GameOver only scrolls the background.
UpdateFrozen ==
  /\ pc = "update"
  /\ game.state # "Playing"
  /\ pc' = "handle_input"
  /\ dt' = 0
  /\ UNCHANGED <<game, sessions, input_frames>>

\* What the environment may report about the bee in this frame.  With the
\* bee's x left to the environment, a bee in flight matters only while a
\* bullet is in flight: a spawn is drawn only in such a frame, and a bee that
\* is left with no bullet to meet flies off (a later spawn stands for a bee
\* that stayed).
BeeEnvs(g) ==
  IF g.bee_active
    THEN {[spawn |-> FALSE, gone |-> TRUE, y |-> g.bee_y]}
           \cup (IF g.bullets # <<>>
                   THEN {[spawn |-> FALSE, gone |-> FALSE, y |-> g.bee_y]} ELSE {})
    ELSE {[spawn |-> FALSE, gone |-> FALSE, y |-> g.bee_y]}
           \cup (IF g.bullets # <<>>
                   THEN {[spawn |-> TRUE, gone |-> FALSE, y |-> y] : y \in BeeYs} ELSE {})

BeeXsNow(g) == IF g.bee_active /\ g.bullets # <<>> THEN BeeXs ELSE {Px(-100)}

\* update() in Playing, up to the formation step:
\* update_bee; update_bullets; update_bee_collisions.
StepUpdateBullets ==
  /\ pc = "update"
  /\ game.state = "Playing"
  /\ \E env \in BeeEnvs(game) :
       LET g == UpdateBullets(UpdateBee(game, env), dt)
       IN \E bee_x \in BeeXsNow(g) : game' = UpdateBeeCollisions(g, bee_x)
  /\ pc' = "update_enemies"
  /\ UNCHANGED <<dt, sessions, input_frames>>

\* update() in Playing: update_enemies.
StepUpdateEnemies ==
  /\ pc = "update_enemies"
  /\ game' = UpdateEnemies(game, dt)
  /\ pc' = "update_collisions"
  /\ UNCHANGED <<dt, sessions, input_frames>>

\* update() in Playing, after the formation step:
\* update_collisions; check_wave_complete.
StepUpdateCollisions ==
  /\ pc = "update_collisions"
  /\ LET g == UpdateCollisions(game)
     IN \E rng \in WaveRngs(g.wave_number + 1) : game' = CheckWaveComplete(g, rng)
  /\ pc' = "handle_input"
  /\ dt' = 0
  /\ UNCHANGED <<sessions, input_frames>>

Next ==
  \/ InputMenu
  \/ InputPlaying
  \/ InputGameOver
  \/ UpdateFrozen
  \/ StepUpdateBullets
  \/ StepUpdateEnemies
  \/ StepUpdateCollisions

Spec == Init /\ [][Next]_vars

(***************************************************************************)
(* A session in progress.  Clearing a wave takes dozens of kills, so the   *)
(* later waves are followed from the states a session is in some frames    *)
(* into a wave, when all enemies but a few have been shot: the game as     *)
(* start_game and the wave clears before have left it, the formation moved *)
(* by update_enemies, the last enemies standing, bullets in flight next to *)
(* them, and the formation step of the current frame just done.  The      *)
(* session is followed through the collision pass of that frame.           *)
(***************************************************************************)
MaxWave == 4
MaxSurvivors == 2
MaxBullets == 2

\* The game at the spawn of the given wave.
RECURSIVE AtWave(_)
AtWave(w) ==
  IF w = 1
    THEN StartGame([NewGame EXCEPT !.player_name = <<"a">>])
    ELSE CheckWaveComplete([AtWave(w - 1) EXCEPT !.enemies = <<>>], NoRng)

\* The shortest frame time that moves anything.
FrameDt == CHOOSE t \in DtSet : t > 0 /\ \A u \in DtSet : u > 0 => t <= u

\* n formation steps on.
RECURSIVE Drift(_, _)
Drift(g, n) == IF n = 0 THEN g ELSE UpdateEnemies(Drift(g, n - 1), FrameDt)

DriftFrames == {4, 5, 6}

(***************************************************************************)
(* The formation on its way down.  A session is followed from its start,  *)
(* with a player who does nothing, through every reversal and descent to   *)
(* the frame that crosses the defender line, and on through GameOver and   *)
(* the reset.                                                              *)
(***************************************************************************)
DriftInit ==
  /\ game = AtWave(1)
  /\ pc = "handle_input"
  /\ dt = 0
  /\ sessions = MaxSessions
  /\ input_frames = MaxInputFrames

DriftSpec == DriftInit /\ [][Next]_vars

\* The main loop never stops: every frame that has begun is carried through
\* update(dt) and followed by the next frame, and the frames of a session
\* keep coming with a positive frame time.  From a state with pc = "update",
\* "update_enemies" or "update_collisions" the only step is the matching
\* update step, which is always enabled there, so that the weak fairness of
\* the steps of the loop and the strong fairness of the frames with dt > 0
\* come to this: time and again a frame begins, and time and again a
\* formation step with dt > 0 has just been taken, unless the session is over.
LoopFairness ==
  /\ []<>(pc = "handle_input")
  /\ []<>(game.state # "Playing" \/ (pc = "update_collisions" /\ dt > 0))

\* The formation on its way down, the loop never stopping.
FairSpec == DriftSpec /\ LoopFairness

\* The elements of s at the indices I, in their order.
Pick(s, I) ==
  [k \in 1..Cardinality(I) |->
     s[CHOOSE i \in I : Cardinality({j \in I : j < i}) = k - 1]]

\* An enemy as earlier hits may have left it.
Worn(e) == {[e EXCEPT !.health = h] : h \in 1..e.health}

\* The enemies left standing: the first of each variant and the last one,
\* each with the health it has left.
Standing(es) ==
  LET firsts == {i \in DOMAIN es :
                   \A j \in DOMAIN es : es[j].enemy_type = es[i].enemy_type => i <= j}
      cands == firsts \cup {Len(es)}
      WornSeqs(s) == {t \in [DOMAIN s -> UNION {Worn(s[k]) : k \in DOMAIN s}] :
                        \A k \in DOMAIN s : t[k] \in Worn(s[k])}
  IN UNION {WornSeqs(Pick(es, I)) :
              I \in {J \in SUBSET cands : Cardinality(J) \in 1..MaxSurvivors}}

\* Where a bullet is relative to an enemy, in pixels: well inside the
\* collision radius, and at exactly the radius.
Aims == {<<5, 5>>, <<12, 16>>}

InFlight(es) ==
  LET near == {NewBullet(es[i].x + Px(a[1]), es[i].y + Px(a[2])) : i \in DOMAIN es, a \in Aims}
  IN UNION {[1..n -> near] : n \in 0..MaxBullets}

\* The scores a session may have reached: none yet, and the last multiple
\* of ten below 2^32 (4294967290).
Scores == {0, -6}

\* The game is the session g with some of its enemies left, bullets next to
\* them and a score.
LateGame(g) ==
  /\ g.state = "Playing"
  /\ \E es \in Standing(g.enemies) :
       \E bs \in InFlight(es), sc \in Scores :
          game = [g EXCEPT !.enemies = es, !.bullets = bs, !.score = sc]

LateInit ==
  /\ \E w \in 1..MaxWave, n \in DriftFrames : LateGame(Drift(AtWave(w), n))
  /\ pc = "update_collisions"
  /\ dt = FrameDt
  /\ sessions = MaxSessions
  /\ input_frames = 0

\* A frame in which the player acts; the session is followed through
\* MaxInputFrames of them.
ActingFrame == InputPlaying /\ input_frames' > input_frames

LateNext == StepUpdateCollisions

LateSpec == LateInit /\ [][LateNext]_vars

(***************************************************************************)
(* The paddle.  Sessions in waves 1..MaxWave (one to three shots) with the *)
(* player at the centre, at and next to the ends of its range, and at the  *)
(* ends of the range of the narrowest base, where a player who stood at an *)
(* edge through a wave clear is left.  A touch left of the centre takes    *)
(* the player to any of these positions.  Each session is taken with its   *)
(* full formation, with its last enemy about to be hit, and after the      *)
(* formation has crossed the defender line.                                *)
(***************************************************************************)
PaddleXs(p) ==
  {Px(INITIAL_BASE_WIDTH) \div 2, p.base_width \div 2, p.base_width \div 2 + Px(1),
   Px(SCREEN_WIDTH) \div 2,
   Px(SCREEN_WIDTH) - p.base_width \div 2 - Px(1), Px(SCREEN_WIDTH) - p.base_width \div 2,
   Px(SCREEN_WIDTH) - Px(INITIAL_BASE_WIDTH) \div 2}

LastStand(g) ==
  LET e == g.enemies[Len(g.enemies)]
  IN [g EXCEPT !.enemies = <<[e EXCEPT !.health = 1]>>,
               !.bullets = <<NewBullet(e.x + Px(5), e.y + Px(5))>>]

Overrun(g) ==
  UpdateEnemies([g EXCEPT !.enemies = <<[@[1] EXCEPT !.y = Px(SCREEN_HEIGHT)]>>,
                          !.bullets = <<NewBullet(Px(SCREEN_WIDTH) \div 2, Px(SCREEN_HEIGHT) \div 2)>>], 0)

PaddleGamesOf(g) ==
  UNION {{h, LastStand(h), Overrun(h)} :
           h \in {[g EXCEPT !.player.x = x] : x \in PaddleXs(g.player)}}

PaddleGames(w) == PaddleGamesOf(AtWave(w))

PaddleInit ==
  /\ \E w \in 1..MaxWave : game \in PaddleGames(w)
  /\ pc = "handle_input"
  /\ dt = 0
  /\ sessions = MaxSessions
  /\ input_frames = 0

PaddleNext ==
  \/ ActingFrame
  \/ InputGameOver
  \/ InputMenu
  \/ UpdateFrozen
  \/ StepUpdateBullets
  \/ StepUpdateEnemies
  \/ StepUpdateCollisions

PaddleSpec == PaddleInit /\ [][PaddleNext]_vars

\* The sessions of PaddleSpec, the loop never stopping; the fairness of the
\* frames outside a session is written as the weak fairness of their update
\* step.
ShotSpec == PaddleSpec /\ LoopFairness /\ WF_vars(UpdateFrozen)


(***************************************************************************)
(* The score store over many sessions.  One step is a whole session: the   *)
(* menu after the reset of the session before, a name, start_game, play up *)
(* to a score, and the frame in which the formation crosses the defender   *)
(* line, which calls save_highscore.  All sessions use one manager.        *)
(***************************************************************************)
MaxSaves == 52
SessionNames == {<<"a">>}
SessionScores == {1, 2}

SessionEnds ==
  /\ sessions < MaxSaves
  /\ \E n \in SessionNames, s \in SessionScores :
       game' = CheckBreach([StartGame([Reset(game) EXCEPT !.player_name = n])
                              EXCEPT !.score = s,
                                     !.enemies = <<[@[1] EXCEPT !.y = Px(SCREEN_HEIGHT)]>>])
  /\ sessions' = sessions + 1
  /\ UNCHANGED <<pc, dt, input_frames>>

ScoreSpec == Init /\ [][SessionEnds]_vars

(***************************************************************************)
(* The first load.  The manager is created on a file that is missing,      *)
(* unreadable, or holds up to MaxLines lines, well-formed or not; the      *)
(* first drawing of the menu (get_top_scores) loads it into the cache.     *)
(***************************************************************************)
MaxLines == 3

ScoreLines ==
  { <<"a", ",", " ", "1">>,
    <<",", " ", "3">>,
    <<" ", "a", " ", ",", "2", " ">>,
    <<"a", ",", " ", "0", "2">>,
    <<"a", ",", " ", "4", "2", "9", "4", "9", "6", "7", "2", "9", "5">>,
    <<"a", ",", " ", "4", "2", "9", "4", "9", "6", "7", "2", "9", "6">>,
    <<"a", " ", "1">>,
    <<"a", ",", " ", "x">>,
    <<"a", ",", " ", "-", "1">>,
    <<"a", ",">>,
    <<BadByte>> }

ScoreFiles ==
  {NoFile, [exists |-> TRUE, readable |-> FALSE, lines |-> <<>>]}
    \cup {[exists |-> TRUE, readable |-> TRUE, lines |-> ls] :
            ls \in UNION {[1..n -> ScoreLines] : n \in 0..MaxLines}}

LoadInit ==
  /\ game \in {[NewGame EXCEPT !.score_file = f] : f \in ScoreFiles}
  /\ pc = "draw_menu"
  /\ dt = 0
  /\ sessions = 0
  /\ input_frames = 0

FirstDraw ==
  /\ pc = "draw_menu"
  /\ game' = [game EXCEPT !.highscores = LoadFromFile(game.score_file)]
  /\ pc' = "handle_input"
  /\ UNCHANGED <<dt, sessions, input_frames>>

LoadSpec == LoadInit /\ [][FirstDraw]_vars

(***************************************************************************)
(* A frame whose time is negative.  update(dt) is entered in the sessions  *)
(* of LateSpec  (bullets in flight, formations advancing or in the middle  *)
(* of a descent) with the frame time of one or two frames, negated.        *)
(***************************************************************************)
NegativeDts == {-t : t \in DtSet \ {0}}

BackInit ==
  /\ \E w \in 1..MaxWave, n \in DriftFrames : LateGame(Drift(AtWave(w), n))
  /\ pc = "update"
  /\ dt \in NegativeDts
  /\ sessions = MaxSessions
  /\ input_frames = MaxInputFrames

BackNext == StepUpdateBullets \/ StepUpdateEnemies \/ StepUpdateCollisions

BackSpec == BackInit /\ [][BackNext]_vars

(***************************************************************************)
(* The last frame of a session.  The first wave has come down, frame by    *)
(* frame, to where the formation step of the next frame crosses the        *)
(* defender line; nothing has been shot (the score is 0), or one enemy has *)
(* been shot before (the score is the points of one kill) and a bullet     *)
(* fired some frames ago may be next to one of the others.  The session is *)
(* followed through that frame, the frames in GameOver and the reset.      *)
(***************************************************************************)
MaxDrift == 80

\* The session g some formation steps on, within n of them, where the next
\* one ends it.
RECURSIVE Brink(_, _)
Brink(g, n) ==
  LET next == UpdateEnemies(g, FrameDt)
  IN IF n = 0 \/ g.state # "Playing" THEN {}
     ELSE IF next.state = "GameOver" THEN {g}
     ELSE Brink(next, n - 1)

LineGamesOf(g) ==
  LET left == Tail(g.enemies)
  IN {g} \cup
     {[g EXCEPT !.enemies = left, !.score = POINTS_PER_ENEMY, !.bullets = bs] :
        bs \in {<<>>} \cup {<<NewBullet(left[i].x + Px(5), left[i].y + Px(16))>> :
                              i \in DOMAIN left}}

LineGames(s) == UNION {LineGamesOf(g) : g \in Brink(s, MaxDrift)}

LineInit ==
  /\ game \in LineGames(AtWave(1))
  /\ pc = "update_enemies"
  /\ dt = FrameDt
  /\ sessions = MaxSessions
  /\ input_frames = 0

LineNext ==
  \/ StepUpdateEnemies
  \/ StepUpdateCollisions
  \/ InputGameOver
  \/ UpdateFrozen
  \/ InputMenu

LineSpec == LineInit /\ [][LineNext]_vars

(***************************************************************************)
(* Properties of the formation step, update_enemies.                       *)
(***************************************************************************)
LEFT_EDGE == Px(EDGE_MARGIN)
RIGHT_EDGE == Px(SCREEN_WIDTH - EDGE_MARGIN)
LINE_Y == Px(SCREEN_HEIGHT - DEFENDER_LINE)

\* A step of the formation: from the state update_enemies is called in to
\* the state it returns in.
FormationStep == pc = "update_enemies" /\ pc' = "update_collisions"

SameEnemies == DOMAIN game'.enemies = DOMAIN game.enemies

\* Where update_enemies puts an enemy before it looks at the edges.
MovedX(e) == e.x + e.direction * Travel(game.enemy_speed, dt)

\* C1: in every call of update_enemies, if descent_distance is > 0 at entry
\* no enemy's x and no enemy's direction changes, and if it is 0 at entry no
\* enemy's y changes: no call both moves the formation sideways and lowers it.
C1_DescentExclusive ==
  [][FormationStep =>
       /\ SameEnemies
       /\ game.descent_distance > 0 =>
            \A i \in DOMAIN game.enemies :
               /\ game'.enemies[i].x = game.enemies[i].x
               /\ game'.enemies[i].direction = game.enemies[i].direction
       /\ game.descent_distance = 0 =>
            \A i \in DOMAIN game.enemies : game'.enemies[i].y = game.enemies[i].y
       /\ \A i \in DOMAIN game.enemies :
             game'.enemies[i].x = game.enemies[i].x \/ game'.enemies[i].y = game.enemies[i].y]_vars

\* A descending call has lowered the formation by part of the step.
C1_Witness ==
  /\ pc = "update_collisions"
  /\ game.descent_distance > 0
  /\ game.descent_distance < Px(DESCENT_STEP)
  /\ \E i \in DOMAIN game.enemies : game.enemies[i].x = RIGHT_EDGE

\* C2: in every Playing frame, if after the formation step some enemy has
\* y > SCREEN_HEIGHT - DEFENDER_LINE the state is GameOver at the end of the
\* frame, and Playing turns into GameOver only in a formation step that
\* leaves an enemy beyond the line.
C2_BreachEndsGame ==
  [][/\ (pc = "update_collisions" /\ \E i \in DOMAIN game.enemies : game.enemies[i].y > LINE_Y)
          => (pc' = "handle_input" /\ game'.state = "GameOver")
     /\ (game.state = "Playing" /\ game'.state = "GameOver")
          => (FormationStep /\ \E i \in DOMAIN game'.enemies : game'.enemies[i].y > LINE_Y)]_vars

\* A frame has ended in GameOver with an enemy beyond the line.
C2_Witness ==
  /\ pc = "handle_input"
  /\ game.state = "GameOver"
  /\ \E i \in DOMAIN game.enemies : game.enemies[i].y > LINE_Y

\* C3: once update_enemies has set GameOver, the rest of that update call
\* removes no enemy and no bullet, leaves the score alone and does not
\* advance or regenerate the wave.
C3_BreachFrameExitsEarly ==
  [][(pc = "update_collisions" /\ game.state = "GameOver") =>
       /\ game'.enemies = game.enemies
       /\ game'.bullets = game.bullets
       /\ game'.score = game.score
       /\ game'.wave_number = game.wave_number]_vars

(***************************************************************************)
(* Properties of the game state machine.                                   *)
(***************************************************************************)
Frozen(g, h) ==
  /\ h.bullets = g.bullets
  /\ h.enemies = g.enemies
  /\ h.player = g.player
  /\ h.score = g.score
  /\ h.wave_number = g.wave_number
  /\ h.enemy_speed = g.enemy_speed
  /\ h.descent_distance = g.descent_distance

\* C4: while the state is Menu or GameOver, update(dt) changes none of the
\* bullets, enemies, player, score, wave number, enemy speed and remaining
\* descent, and shoot() adds no bullet.
C4_FrozenOutsidePlaying ==
  /\ [][(pc = "update" /\ game.state # "Playing") =>
          (pc' = "handle_input" /\ game'.state = game.state /\ Frozen(game, game'))]_vars
  /\ [][game.state # "Playing" => Frozen(game, Shoot(game))]_vars

\* update(dt) has run in GameOver with enemies and a bullet on the screen.
C4_Witness ==
  /\ pc = "handle_input"
  /\ dt = 0
  /\ game.state = "GameOver"
  /\ game.bullets # <<>>
  /\ game.enemies # <<>>

\* C5: the game state changes only from Menu to Playing (in handle_input,
\* with a player name), from Playing to GameOver (in update_enemies, with an
\* enemy beyond the defender line) and from GameOver to Menu (in
\* handle_input, by the reset).
C5_Transitions ==
  [][game'.state # game.state =>
       \/ /\ game.state = "Menu" /\ game'.state = "Playing"
          /\ pc = "handle_input" /\ game.player_name # <<>>
       \/ /\ game.state = "Playing" /\ game'.state = "GameOver"
          /\ pc = "update_enemies"
          /\ \E i \in DOMAIN game'.enemies : game'.enemies[i].y > LINE_Y
       \/ /\ game.state = "GameOver" /\ game'.state = "Menu"
          /\ pc = "handle_input" /\ game'.just_reset]_vars

\* A session has been played to its end and reset to the menu.
C5_Witness ==
  /\ game.state = "Menu"
  /\ sessions = MaxSessions
  /\ game.just_reset

\* C6: start_game() with an empty player name changes nothing; with a name
\* it enters Playing with score 0, wave 1, the formation of wave 1, no
\* bullets, the player reset, the initial enemy speed and no remaining
\* descent.  Stated of start_game() called in any reachable state.
C6_StartGame ==
  LET g == StartGame(game)
  IN IF game.player_name = <<>>
       THEN g = game
       ELSE /\ g.state = "Playing"
            /\ g.score = 0
            /\ g.wave_number = 1
            /\ g.enemies = GenerateGridFormation(1)
            /\ g.bullets = <<>>
            /\ g.player.x = Px(SCREEN_WIDTH) \div 2
            /\ g.player.base_width = Px(INITIAL_BASE_WIDTH)
            /\ g.player.available_shots = 1
            /\ g.enemy_speed = INITIAL_ENEMY_SPEED
            /\ g.descent_distance = 0

\* A session is under way with a name entered, a bullet in flight, a score
\* and the formation on its way down: start_game() would have all to reset.
C6_Witness ==
  /\ game.state = "Playing"
  /\ game.player_name # <<>>
  /\ game.bullets # <<>>
  /\ game.score > 0
  /\ game.descent_distance > 0

(***************************************************************************)
(* Properties of the edge reversal and the descent.                        *)
(***************************************************************************)
\* An Advancing call that starts a descent.
EdgeStep == FormationStep /\ game.descent_distance = 0 /\ game'.descent_distance > 0

\* C7: when an Advancing call detects an edge, it reverses the direction of
\* every enemy, leaves every enemy's x in [20, SCREEN_WIDTH - 20], putting
\* an enemy that moved beyond a margin on that margin, and sets the
\* remaining descent to exactly 40.
C7_EdgeReversal ==
  [][EdgeStep =>
       /\ SameEnemies
       /\ game'.descent_distance = Px(DESCENT_STEP)
       /\ \A i \in DOMAIN game.enemies :
            /\ game'.enemies[i].direction = -game.enemies[i].direction
            /\ game'.enemies[i].x >= LEFT_EDGE
            /\ game'.enemies[i].x <= RIGHT_EDGE
            /\ game'.enemies[i].x =
                 Min(Max(MovedX(game.enemies[i]), LEFT_EDGE), RIGHT_EDGE)]_vars

\* An edge reversal has clamped the leading column of a row: the row's two
\* outermost enemies stand closer than the spacing of the formation.
C7_Witness ==
  /\ pc = "update_collisions"
  /\ game.descent_distance = Px(DESCENT_STEP)
  /\ \E i, j \in DOMAIN game.enemies :
        /\ game.enemies[i].x = RIGHT_EDGE
        /\ game.enemies[j].y = game.enemies[i].y
        /\ game.enemies[j].x < RIGHT_EDGE
        /\ game.enemies[j].x > RIGHT_EDGE - Px(60)

\* C8 as claimed: an Advancing call starts the descent whenever, after the
\* move, some enemy's x is <= 20 or >= SCREEN_WIDTH - 20, whichever way that
\* enemy is moving.
C8_EdgeEitherWay ==
  [][(FormationStep /\ game.descent_distance = 0
        /\ \E i \in DOMAIN game.enemies :
              \/ MovedX(game.enemies[i]) <= LEFT_EDGE
              \/ MovedX(game.enemies[i]) >= RIGHT_EDGE)
       => game'.descent_distance = Px(DESCENT_STEP)]_vars

\* C8 as amended: an Advancing call starts the descent exactly when, after
\* the move, some enemy moving right has x >= SCREEN_WIDTH - 20 or some
\* enemy moving left has x <= 20.
C8_EdgeAhead ==
  [][(FormationStep /\ game.descent_distance = 0) =>
       ((game'.descent_distance = Px(DESCENT_STEP))
          <=> \E i \in DOMAIN game.enemies :
                 \/ game.enemies[i].direction > 0 /\ MovedX(game.enemies[i]) >= RIGHT_EDGE
                 \/ game.enemies[i].direction < 0 /\ MovedX(game.enemies[i]) <= LEFT_EDGE)]_vars

\* An Advancing call with a frame time of 0 has left an enemy on the right
\* margin, moving left, without starting a descent.
C8_Witness ==
  /\ pc = "update_collisions"
  /\ dt = 0
  /\ game.descent_distance = 0
  /\ \E i \in DOMAIN game.enemies :
        game.enemies[i].x = RIGHT_EDGE /\ game.enemies[i].direction < 0

\* The rows of the grid formation start 50 px apart from y = 50.
RowYs == {Px(50 + 50 * j) : j \in 0..(GRID_ROWS - 1)}

\* C9: a Descending call lowers every enemy by min(descent_speed * dt,
\* remaining descent) and takes as much off the remaining descent, which is
\* never negative; so every enemy stands a whole number of 40 px steps below
\* its row's first height, less the descent still remaining.
C9_DescentExact ==
  /\ [][(FormationStep /\ game.descent_distance > 0) =>
          LET step == Min(Travel(DESCENT_SPEED, dt), game.descent_distance)
          IN /\ SameEnemies
             /\ game'.descent_distance = game.descent_distance - step
             /\ \A i \in DOMAIN game.enemies :
                   game'.enemies[i].y = game.enemies[i].y + step]_vars
  /\ [][/\ game'.descent_distance >= 0
        /\ game'.descent_distance <= Px(DESCENT_STEP)
        /\ game'.wave_number = 1 =>
             \E k \in 0..((SCREEN_HEIGHT \div DESCENT_STEP) + 1) :
                \A i \in DOMAIN game'.enemies :
                   game'.enemies[i].y + game'.descent_distance - k * Px(DESCENT_STEP)
                     \in RowYs]_vars

\* A descent has ended in a frame too short for a whole step: the call
\* lowered the formation by what remained, and the enemies stand on the
\* edge one step below their first height.
C9_Witness ==
  /\ pc = "update_collisions"
  /\ dt > 0
  /\ Travel(DESCENT_SPEED, dt) < Px(DESCENT_STEP)
  /\ game.descent_distance = 0
  /\ \E i \in DOMAIN game.enemies :
        game.enemies[i].x = RIGHT_EDGE /\ game.enemies[i].y = Px(50 + DESCENT_STEP)

\* C10: once the remaining descent is set to 40, the Playing frames with
\* dt > 0 bring it to 0 unless the game ends first, and a call that finds it
\* 0 with dt > 0 moves every enemy sideways.
C10_DescentEnds ==
  /\ (game.state = "Playing" /\ game.descent_distance = Px(DESCENT_STEP))
       ~> (game.descent_distance = 0 \/ game.state # "Playing")
  /\ [][(FormationStep /\ game.descent_distance > 0 /\ dt > 0) =>
          game'.descent_distance < game.descent_distance]_vars
  /\ [][(FormationStep /\ game.descent_distance = 0 /\ dt > 0) =>
          \A i \in DOMAIN game.enemies : game'.enemies[i].x # game.enemies[i].x]_vars

\* The formation has come down a step and moved off the right margin again.
C10_Witness ==
  /\ pc = "update_collisions"
  /\ game.state = "Playing"
  /\ game.descent_distance = 0
  /\ \E i \in DOMAIN game.enemies :
        /\ game.enemies[i].y = Px(50 + DESCENT_STEP)
        /\ game.enemies[i].direction < 0
        /\ game.enemies[i].x = RIGHT_EDGE - Travel(INITIAL_ENEMY_SPEED, dt)
        /\ dt > 0

(***************************************************************************)
(* Properties of the wave clear and of the score.                          *)
(***************************************************************************)
\* The step that ends update(): update_collisions; check_wave_complete.
CollisionStep == pc = "update_collisions" /\ pc' = "handle_input"

\* A step that puts a fresh formation in place.
Spawn ==
  \/ game.state = "Menu" /\ game'.state = "Playing"
  \/ game.state = "GameOver" /\ game'.state = "Menu"
  \/ CollisionStep /\ game'.wave_number # game.wave_number

\* C11: every formation spawn (the start of a game, a reset, the
\* regeneration after a wave clear) leaves the remaining descent at 0, so
\* that the new wave starts Advancing, also when the wave before it was
\* cleared in the middle of a descent.
C11_SpawnStartsAdvancing ==
  [][Spawn => game'.descent_distance = 0]_vars

\* The pass of the collision resolver in this frame leaves no enemy.
Cleared == UpdateCollisions(game).enemies = <<>>

\* C12: when the collision resolver leaves the enemy collection empty, the
\* same frame raises the wave number by exactly 1 and the enemy speed by
\* SPEED_INCREASE_PER_WAVE, upgrades the player exactly once (one more shot
\* and a base wider by BASE_WIDTH_INCREASE, until the cap of MAX_SHOTS) and
\* replaces the enemies by the formation generated for the new wave
\* number, which is not empty.
C12_WaveClear ==
  [][(CollisionStep /\ Cleared) =>
       /\ game'.wave_number = game.wave_number + 1
       /\ game'.enemy_speed = game.enemy_speed + SPEED_INCREASE_PER_WAVE
       /\ game'.player.x = game.player.x
       /\ IF game.player.available_shots < MAX_SHOTS
            THEN /\ game'.player.available_shots = game.player.available_shots + 1
                 /\ game'.player.base_width = game.player.base_width + Px(BASE_WIDTH_INCREASE)
            ELSE /\ game'.player.available_shots = game.player.available_shots
                 /\ game'.player.base_width = game.player.base_width
       /\ \E rng \in WaveRngs(game'.wave_number) :
            game'.enemies = GenerateWave(game'.wave_number, rng)
       /\ game'.enemies # <<>>]_vars

\* A wave has just been cleared and the next formation is in place.
C12_Witness ==
  /\ pc = "handle_input"
  /\ input_frames = 0
  /\ game.wave_number > 1
  /\ Len(game.enemies) > MaxSurvivors

\* C13: the wave number is 1 in a new game, after a reset and at the start
\* of a session, it is at least 1 in every state, and within a session it
\* changes only by +1 and only in a frame whose collision pass leaves no
\* enemy: it is never raised while enemies remain.
C13_WaveNumber ==
  [][/\ NewGame.wave_number = 1
     /\ Reset(game).wave_number = 1
     /\ StartGame([game EXCEPT !.player_name = <<"a">>]).wave_number = 1
     /\ game.wave_number >= 1
     /\ game'.wave_number >= 1
     /\ game'.wave_number # game.wave_number =>
          \/ game'.state # game.state /\ game'.wave_number = 1
          \/ /\ CollisionStep
             /\ Cleared
             /\ game'.wave_number = game.wave_number + 1]_vars

\* The last wave the model starts from has been cleared.
C13_Witness == game.wave_number > MaxWave

\* C14: within a session the score never decreases from one frame to the
\* next, also when the points added would pass the largest u32: the
\* accumulation does not wrap around to a smaller value.
C14_ScoreNeverDecreases ==
  [][(game.state = "Playing" /\ game'.state = "Playing") =>
       ~U32Less(game'.score, game.score)]_vars

\* The sum of the points of the entries (x, y, points) of a destroyed list.
RECURSIVE SumPoints(_)
SumPoints(info) ==
  IF info = <<>> THEN 0 ELSE info[1][3] + SumPoints(Tail(info))

\* C15: the score gained in a frame's collision pass is the sum of the
\* variant point values of the enemies destroyed in that pass (Standard 10,
\* Fast 20, Swooper 30, Tank 50), not a flat value per kill.
C15_ScoreByVariant ==
  [][CollisionStep =>
       game'.score =
         WrappingAdd(game.score,
                     SumPoints(ProcessCollisions(game.enemies, game.bullets).destroyed_info))]_vars

(***************************************************************************)
(* Properties of reset().                                                  *)
(***************************************************************************)
\* What the claim compares: player, bullets, formation, remaining descent,
\* enemy speed, wave number, score and game state.
SessionState(g) ==
  <<g.player, g.bullets, g.enemies, g.descent_distance, g.enemy_speed,
    g.wave_number, g.score, g.state>>

\* reset() called twice gives what reset() called once gives, and that is a
\* freshly created game.
ResetLaw(g) ==
  LET once == Reset(g)
      twice == Reset(once)
  IN /\ SessionState(twice) = SessionState(once)
     /\ SessionState(once) = SessionState(NewGame)
     /\ once.player = [x |-> Px(SCREEN_WIDTH) \div 2, base_width |-> Px(50),
                       available_shots |-> 1]
     /\ once.bullets = <<>>
     /\ once.descent_distance = 0
     /\ once.wave_number = 1
     /\ once.score = 0
     /\ once.state = "Menu"

\* C16: reset() twice in a row leaves the same player, bullets, formation,
\* remaining descent, enemy speed, wave number, score and game state as
\* reset() once, and after one reset these are the values of a freshly
\* created game: the wave 1 formation, score 0, the player at the centre
\* with width 50 and 1 shot, state Menu.  Stated of reset() called where
\* handle_input calls it, at the start of a frame, in any reachable state
\* and in the same state one wave clear later.
C16_ResetIdempotent ==
  pc = "handle_input" =>
    \A g \in {game, CheckWaveComplete([game EXCEPT !.enemies = <<>>], NoRng)} :
       ResetLaw(g)

\* reset() has run on a session that ended with kills; a frame in GameOver
\* that reports both the touch and the R key runs it twice.
C16_Witness ==
  /\ game.just_reset
  /\ game.highscores # <<>>
  /\ SessionState(game) = SessionState(NewGame)

(***************************************************************************)
(* Properties of the collision pass, process_collisions.                   *)
(***************************************************************************)
\* The indices of the bullets within the collision radius of an enemy.
InRange(bs, e) == {k \in DOMAIN bs : CheckCollision(bs[k], e)}

\* How often a value occurs in a sequence.
Occurrences(s, v) == Cardinality({k \in DOMAIN s : s[k] = v})

RECURSIVE TotalHealth(_)
TotalHealth(es) ==
  IF es = <<>> THEN 0 ELSE es[1].health + TotalHealth(Tail(es))

\* C17: in one collision pass each bullet damages at most one enemy (every
\* bullet removed accounts for one hit point, a bullet that stays for
\* none); a bullet is removed exactly if it hit a live enemy (a removed
\* bullet was within the radius of an enemy, a bullet that stays is within
\* the radius of no enemy that is left); the enemies destroyed are no more
\* than the bullets removed; and the enemies left plus the enemies
\* destroyed are the enemies the pass began with.
C17_CollisionPass ==
  [][CollisionStep =>
       LET es == game.enemies
           bs == game.bullets
           r == ProcessCollisions(es, bs)
           removed == Len(bs) - Len(r.bullets)
       IN /\ game'.bullets = r.bullets
          /\ r.enemies # <<>> => game'.enemies = r.enemies
          /\ TotalHealth(es) - TotalHealth(r.enemies) = removed
          /\ \A k \in DOMAIN bs :
               /\ Occurrences(r.bullets, bs[k]) <= Occurrences(bs, bs[k])
               /\ Occurrences(r.bullets, bs[k]) < Occurrences(bs, bs[k]) =>
                    \E i \in DOMAIN es : CheckCollision(bs[k], es[i])
          /\ \A k \in DOMAIN r.bullets :
               /\ Occurrences(bs, r.bullets[k]) > 0
               /\ \A i \in DOMAIN r.enemies : ~CheckCollision(r.bullets[k], r.enemies[i])
          /\ Len(r.destroyed_info) <= removed
          /\ Len(r.enemies) + Len(r.destroyed_info) = Len(es)]_vars

\* A pass has destroyed one of two enemies and left the other and a bullet.
C17_Witness ==
  /\ pc = "handle_input"
  /\ input_frames = 0
  /\ game.score = POINTS_PER_ENEMY
  /\ Len(game.enemies) = 1
  /\ game.bullets # <<>>

\* The bullets in range of the enemy es[i] are in range of no other enemy.
Exclusive(es, bs, i) ==
  \A k \in InRange(bs, es[i]) :
     \A j \in DOMAIN es : j # i => ~CheckCollision(bs[k], es[j])

\* The entries of a destroyed list at the place of an enemy.
ReportsAt(info, e) == {k \in DOMAIN info : info[k][1] = e.x /\ info[k][2] = e.y}

\* The bullets in range of no enemy.
Stray(bs, es) == {k \in DOMAIN bs : \A i \in DOMAIN es : ~CheckCollision(bs[k], es[i])}

\* C18: when several bullets are within the radius of the same enemy with
\* one hit point, exactly one of them is consumed and scores, the enemy is
\* gone and is reported destroyed once, and the other bullets stay unless
\* they are within the radius of a different live enemy; when no other
\* enemy is hit in the pass, the bullet consumed is the first in the list.
C18_OneBulletPerKill ==
  [][CollisionStep =>
       LET es == game.enemies
           bs == game.bullets
           r == ProcessCollisions(es, bs)
       IN /\ Cardinality(Stray(r.bullets, es)) = Cardinality(Stray(bs, es))
          /\ \A i \in DOMAIN es :
               LET K == InRange(bs, es[i])
               IN (es[i].health = 1 /\ Cardinality(K) >= 2 /\ Exclusive(es, bs, i)) =>
                    /\ Cardinality(InRange(r.bullets, es[i])) = Cardinality(K) - 1
                    /\ Cardinality(InRange(game'.bullets, es[i])) = Cardinality(K) - 1
                    /\ \A k \in DOMAIN r.enemies :
                         r.enemies[k].x # es[i].x \/ r.enemies[k].y # es[i].y
                    /\ Cardinality(ReportsAt(r.destroyed_info, es[i])) = 1
                    /\ game'.score # game.score
                    /\ (\A j \in DOMAIN es : j # i => InRange(bs, es[j]) = {}) =>
                         /\ r.bullets = SwapRemove(bs, CHOOSE k \in K : \A l \in K : k <= l)
                         /\ Len(r.destroyed_info) = 1]_vars

\* Bullets in flight where an enemy of wave 1 stood: a pass has destroyed
\* the enemy with one of the bullets around it and left the others.
C18_Witness ==
  /\ pc = "handle_input"
  /\ input_frames = 0
  /\ game.wave_number = 1
  /\ game.score = POINTS_PER_ENEMY
  /\ \E n \in DriftFrames :
       LET e == Drift(AtWave(1), n).enemies[1]
       IN /\ InRange(game.bullets, e) # {}
          /\ \A k \in DOMAIN game.enemies : game.enemies[k].x # e.x

\* C19: an enemy is spawned with 1 hit point, a Tank with 3.  An enemy with
\* h hit points left survives h - 1 hits, each of which consumes its bullet,
\* lowers the health by 1 and reports nothing; the h-th hit removes it and
\* reports it exactly once, as (x, y, the full points of its variant).  The
\* destroyed list of a pass holds the kills of that pass only.
C19_HitPoints ==
  [][CollisionStep =>
       LET es == game.enemies
           bs == game.bullets
           r == ProcessCollisions(es, bs)
       IN /\ \A i \in DOMAIN es :
               LET e == es[i]
                   hits == Cardinality(InRange(bs, e))
               IN Exclusive(es, bs, i) =>
                    IF hits < e.health
                      THEN /\ \E k \in DOMAIN r.enemies :
                                r.enemies[k] = [e EXCEPT !.health = @ - hits]
                           /\ InRange(r.bullets, e) = {}
                           /\ hits > 0 => ReportsAt(r.destroyed_info, e) = {}
                      ELSE /\ \A k \in DOMAIN r.enemies :
                                r.enemies[k].x # e.x \/ r.enemies[k].y # e.y
                           /\ Cardinality(InRange(r.bullets, e)) = hits - e.health
                           /\ Cardinality(ReportsAt(r.destroyed_info, e)) = 1
                           /\ \A k \in ReportsAt(r.destroyed_info, e) :
                                r.destroyed_info[k] =
                                  <<e.x, e.y,
                                    CASE e.enemy_type = "Standard" -> 10
                                      [] e.enemy_type = "Fast" -> 20
                                      [] e.enemy_type = "Swooper" -> 30
                                      [] e.enemy_type = "Tank" -> 50>>
          /\ Len(r.destroyed_info) = Len(es) - Len(r.enemies)
          /\ \A k \in DOMAIN r.destroyed_info :
               \E i \in DOMAIN es :
                  /\ r.destroyed_info[k][1] = es[i].x
                  /\ r.destroyed_info[k][2] = es[i].y
                  /\ InRange(bs, es[i]) # {}
          /\ Cleared =>
               \A k \in DOMAIN game'.enemies :
                  game'.enemies[k].health =
                    IF game'.enemies[k].enemy_type = "Tank" THEN 3 ELSE 1]_vars

\* Bullets in flight where the Tank of wave 3 stood, with another enemy
\* left: a pass has brought the Tank to 0 hit points and left the bullets
\* it did not need.
C19_Witness ==
  /\ pc = "handle_input"
  /\ input_frames = 0
  /\ game.wave_number = 3
  /\ game.enemies # <<>>
  /\ \E n \in DriftFrames :
       \E i \in DOMAIN Drift(AtWave(3), n).enemies :
          LET e == Drift(AtWave(3), n).enemies[i]
          IN /\ e.enemy_type = "Tank"
             /\ InRange(game.bullets, e) # {}
             /\ \A k \in DOMAIN game.enemies :
                  game.enemies[k].x # e.x \/ game.enemies[k].y # e.y

\* The square of the distance between two points, in square sub-pixels.
DistanceSq(p, q) == (p.x - q.x) * (p.x - q.x) + (p.y - q.y) * (p.y - q.y)

\* 400 square pixels: the square of COLLISION_RADIUS.
RadiusSq == 400 * PX * PX

\* C20: check_collision(bullet, enemy) is true exactly if the squared
\* Euclidean distance between the two is less than COLLISION_RADIUS squared
\* (400): it is false at exactly the radius, and it gives the same answer
\* with the two points exchanged.
C20_CheckCollision ==
  \A k \in DOMAIN game.bullets : \A i \in DOMAIN game.enemies :
     LET b == game.bullets[k]
         e == game.enemies[i]
     IN /\ CheckCollision(b, e) <=> DistanceSq(b, e) < RadiusSq
        /\ DistanceSq(b, e) = RadiusSq => ~CheckCollision(b, e)
        /\ CheckCollision(b, e) <=> CheckCollision([x |-> e.x, y |-> e.y], [x |-> b.x, y |-> b.y])

\* A collision pass has left a bullet at exactly the radius from an enemy.
C20_Witness ==
  /\ pc = "handle_input"
  /\ input_frames = 0
  /\ \E k \in DOMAIN game.bullets : \E i \in DOMAIN game.enemies :
       DistanceSq(game.bullets[k], game.enemies[i]) = RadiusSq

\* C21: generate_wave(w) is never empty, and the formation a spawn installs
\* is the one every other call of generate_wave with the same wave number
\* returns, in either build: same positions, directions, variants and hit
\* points, the scattered pattern included.
C21_SameWaveSameEnemies ==
  [][Spawn =>
       /\ game'.enemies # <<>>
       /\ \A t \in Targets : \A rng \in TargetRngs(t, game'.wave_number) :
            GenerateWave(game'.wave_number, rng) = game'.enemies]_vars

\* The heights at which a formation has enemies, and the number of enemies
\* at each height from the top row down.
Heights(es) == {es[i].y : i \in DOMAIN es}

RowCounts(es) ==
  [k \in 1..Cardinality(Heights(es)) |->
     LET y == CHOOSE h \in Heights(es) :
                Cardinality({g \in Heights(es) : g < h}) = k - 1
     IN Cardinality({i \in DOMAIN es : es[i].y = y})]

Layout(es) == [i \in DOMAIN es |-> <<es[i].x, es[i].y, es[i].direction>>]

\* 35 enemies anywhere in the band the scattered pattern draws from.
IsScattered(es) ==
  /\ Len(es) = 35
  /\ \A i \in DOMAIN es :
       /\ es[i].x >= Px(100) /\ es[i].x < Px(SCREEN_WIDTH - 100)
       /\ es[i].y >= Px(60) /\ es[i].y < Px(260)
       /\ es[i].direction \in {1, -1}

Unlocked(w) ==
  {"Standard"} \cup (IF w >= 2 THEN {"Fast"} ELSE {})
               \cup (IF w >= 3 THEN {"Tank"} ELSE {})
               \cup (IF w >= 4 THEN {"Swooper"} ELSE {})

\* Every enemy on screen is of a variant its wave has unlocked, and every
\* freshly generated Tank has 3 hit points, every other enemy 1.
UnlockLaw ==
  /\ \A i \in DOMAIN game'.enemies :
       game'.enemies[i].enemy_type \in Unlocked(game'.wave_number)
  /\ Spawn => \A i \in DOMAIN game'.enemies :
                game'.enemies[i].health =
                  IF game'.enemies[i].enemy_type = "Tank" THEN 3 ELSE 1

C24_ShotsCapped ==
  [][/\ game'.player.available_shots \in {1, 2, 3}
     /\ (CollisionStep /\ game'.wave_number # game.wave_number) =>
          IF game.player.available_shots < 3
            THEN /\ game'.player.available_shots = game.player.available_shots + 1
                 /\ game'.player.base_width = game.player.base_width + Px(20)
            ELSE /\ game'.player.available_shots = 3
                 /\ game'.player.base_width = game.player.base_width
     /\ (game.state = "GameOver" /\ game'.state = "Menu") =>
          game'.player.available_shots = 1]_vars

\* The clear of wave 3 has called upgrade() on a player with 3 shots.
C24_Witness ==
  /\ pc = "handle_input"
  /\ input_frames = 1
  /\ game.wave_number = 4
  /\ game.player.available_shots = 3
  /\ game.player.base_width = Px(INITIAL_BASE_WIDTH + 2 * BASE_WIDTH_INCREASE)

\* The ends of the player's range.
LeftEnd(p) == p.base_width \div 2
RightEnd(p) == Px(SCREEN_WIDTH) - p.base_width \div 2

\* C25: after every frame with a move_left or move_right, for every player
\* speed and frame time, base_width/2 <= x <= SCREEN_WIDTH - base_width/2;
\* and when the position the move leads to is inside that range, the player
\* is exactly there: clamping does not change it.
C25_MoveClamped ==
  [][(pc = "handle_input" /\ game.state = "Playing") =>
       \A in \in PlayingInputs, t \in DtSet :
         (game' = HandleInputPlaying(game, in, t) /\ dt' = t /\ (in.left \/ in.right)) =>
           LET p == game'.player
               target == IF in.left THEN game.player.x - Travel(game.player_speed, t)
                                    ELSE game.player.x + Travel(game.player_speed, t)
           IN /\ LeftEnd(p) <= p.x /\ p.x <= RightEnd(p)
              /\ (LeftEnd(p) <= target /\ target <= RightEnd(p)) => p.x = target]_vars

\* A frame with a positive frame time has left a widened player on the left
\* end of its range.
C25_Witness ==
  /\ pc = "update"
  /\ game.state = "Playing"
  /\ dt > 0
  /\ game.player.base_width > Px(INITIAL_BASE_WIDTH)
  /\ game.player.x = LeftEnd(game.player)
  /\ game.bullets = <<>>

\* The fire intents of a frame: the space key, and a touch on the right half
\* that begins in this frame.
Intents(g, in) ==
  (IF in.space THEN 1 ELSE 0)
    + (IF ~g.touch_shooting /\ \E k \in DOMAIN in.touches : in.touches[k] >= Px(SCREEN_WIDTH) \div 2
         THEN 1 ELSE 0)

\* C26: in Playing every fire intent appends exactly available_shots
\* bullets; the i-th of them is at
\* x = player.x - base_width/2 + i * base_width / (available_shots + 1) and
\* y = SCREEN_HEIGHT - 50, strictly between the ends of the paddle; the
\* bullets already in flight are unchanged; outside Playing a frame's input
\* adds no bullet.
C26_Volley ==
  [][pc = "handle_input" =>
       IF game.state = "Playing"
         THEN \A in \in PlayingInputs, t \in DtSet :
                (game' = HandleInputPlaying(game, in, t) /\ dt' = t) =>
                  LET p == game'.player
                      k == p.available_shots
                      old == Len(game.bullets)
                  IN /\ Len(game'.bullets) = old + Intents(game, in) * k
                     /\ SubSeq(game'.bullets, 1, old) = game.bullets
                     /\ \A j \in (old + 1)..Len(game'.bullets) :
                          LET i == ((j - old - 1) % k) + 1
                              b == game'.bullets[j]
                          IN /\ b.x * (k + 1) = (p.x - p.base_width \div 2) * (k + 1) + i * p.base_width
                             /\ b.y = Px(SCREEN_HEIGHT - 50)
                             /\ p.x - p.base_width \div 2 < b.x
                             /\ b.x < p.x + p.base_width \div 2
         ELSE game'.bullets \in {game.bullets, <<>>}]_vars

\* A player with three shots has fired one volley past a bullet in flight.
C26_Witness ==
  /\ pc = "update"
  /\ game.state = "Playing"
  /\ game.player.available_shots = 3
  /\ Len(game.bullets) = 4
  /\ \A j \in 2..4 : game.bullets[j].y = Px(SCREEN_HEIGHT - 50)

\* hs with its k-th entry taken out.
Without(hs, k) == SubSeq(hs, 1, k - 1) \o SubSeq(hs, k + 1, Len(hs))

\* C27: the frame that takes the game from Playing to GameOver stores the
\* player's name with the score exactly once when the name is not empty and
\* the score is above 0, and stores nothing otherwise; no other step changes
\* the stored scores: not a frame in GameOver, and not the reset that ends
\* the session.
C27_SavedOnceAtGameOver ==
  [][IF game.state = "Playing" /\ game'.state = "GameOver"
       THEN IF game.player_name # <<>> /\ game.score > 0
              THEN /\ Len(game'.highscores) = Len(game.highscores) + 1
                   /\ \E k \in DOMAIN game'.highscores :
                        /\ game'.highscores[k] = [name |-> game.player_name, score |-> game.score]
                        /\ Without(game'.highscores, k) = game.highscores
              ELSE game'.highscores = game.highscores
       ELSE game'.highscores = game.highscores]_vars

\* A session that ended with a score has been reset: one entry is stored.
C27_Witness ==
  /\ game.state = "Menu"
  /\ game.just_reset
  /\ sessions = 1
  /\ Len(game.highscores) = 1
  /\ game.highscores[1].score > 0

\* Entries in the order of their scores, highest first.
SortedByScore(hs) == \A i, j \in DOMAIN hs : i < j => hs[i].score >= hs[j].score

\* C28: after every save on one manager the stored entries are sorted by
\* score, highest first, and are at most 50; they are the 50 highest of
\* everything saved: the new entry is inserted next to the entries that were
\* there, entries of the same name included, and once there are 50 the one
\* entry that is dropped (the new one or the last of the old ones) has a
\* score no higher than any entry kept.  get_top_scores(n) returns the
\* first min(n, length) entries.
C28_TopFifty ==
  [][LET old == game.highscores
         new == game'.highscores
         e == [name |-> game'.player_name, score |-> game'.score]
     IN /\ SortedByScore(new)
        /\ Len(new) <= 50
        /\ IF Len(old) < 50
             THEN \E k \in DOMAIN new : new[k] = e /\ Without(new, k) = old
             ELSE \/ new = old /\ e.score <= old[50].score
                  \/ /\ \E k \in DOMAIN new :
                          new[k] = e /\ Without(new, k) = SubSeq(old, 1, 49)
                     /\ old[50].score <= new[50].score
        /\ \A n \in {0, 1, 10, 49, 50, 51} :
             GetTopScores(new, n) = [k \in 1..Min(n, Len(new)) |-> new[k]]]_vars

\* More than 50 sessions have been saved under one name, and the score of
\* the last one was too low to be kept.
C28_Witness ==
  /\ sessions > 50
  /\ Len(game.highscores) = 50
  /\ game.highscores[50].score > game.score
  /\ \A i \in 1..50 : game.highscores[i].name = game.player_name

\* A line as the claim reads it: the text before the first comma is the
\* name, the text after it the score; the line is well-formed when it has a
\* comma and the score, spaces aside, is a non-negative integer that a
\* score can hold.
ScoreText(line) == Trim(SubSeq(line, CommaAt(line) + 1, Len(line)))

WellFormed(line) ==
  /\ CommaAt(line) > 0
  /\ ScoreText(line) # <<>>
  /\ \A i \in DOMAIN ScoreText(line) : IsDigit(ScoreText(line)[i])
  /\ ParseU32(ScoreText(line)).ok

\* C29: loading never fails: a missing or unreadable file loads as the
\* empty list, and from a file of well-formed and malformed lines exactly
\* the well-formed ones are loaded, each with its name (the empty name
\* included) and its score, sorted by score, highest first.
C29_MalformedSkipped ==
  pc = "handle_input" =>
    LET file == game.score_file
        hs == game.highscores
    IN IF ~file.exists \/ ~file.readable
         THEN hs = <<>>
         ELSE /\ Len(hs) = Cardinality({i \in DOMAIN file.lines : WellFormed(file.lines[i])})
              /\ \A i, j \in DOMAIN hs : i < j => ~U32Less(hs[i].score, hs[j].score)
              /\ \A i \in DOMAIN file.lines :
                   WellFormed(file.lines[i]) =>
                     \E k \in DOMAIN hs :
                       /\ hs[k].name = Trim(SubSeq(file.lines[i], 1, CommaAt(file.lines[i]) - 1))
                       /\ FormatU32(hs[k].score) = StripZeros(ScoreText(file.lines[i]))

\* C30: a frame with a negative frame time leaves a valid state, as if the
\* time had been clamped or the frame ignored: no bullet moves down, no
\* enemy moves against its direction or up, and the remaining descent does
\* not rise above the step of 40 px.
C30_NegativeDtHarmless ==
  [][dt < 0 =>
       /\ pc = "update" =>
            \A j \in DOMAIN game'.bullets : \E i \in DOMAIN game.bullets :
               /\ game'.bullets[j].x = game.bullets[i].x
               /\ game'.bullets[j].y <= game.bullets[i].y
       /\ pc = "update_enemies" =>
            /\ Len(game'.enemies) = Len(game.enemies)
            /\ \A i \in DOMAIN game.enemies :
                 /\ (game'.enemies[i].x - game.enemies[i].x) * game.enemies[i].direction >= 0
                 /\ game'.enemies[i].y >= game.enemies[i].y
            /\ game'.descent_distance <= Px(40)]_vars

(***************************************************************************)
(* Properties of the bullets, the paddle and the formation's position.     *)
(***************************************************************************)
\* C31: bullets move only vertically: the bullet step of a Playing frame
\* takes every bullet it keeps up by bullet speed * dt with x unchanged, and
\* no other step of update moves a bullet; at the end of every Playing frame
\* no bullet in the collection has y < 0, x < 0 or x > SCREEN_WIDTH.
C31_BulletsVertical ==
  [][/\ (pc = "update" /\ game.state = "Playing") =>
          \A j \in DOMAIN game'.bullets : \E i \in DOMAIN game.bullets :
             /\ game'.bullets[j].x = game.bullets[i].x
             /\ game'.bullets[j].y = game.bullets[i].y - Travel(game.bullet_speed, dt)
     /\ pc \in {"update_enemies", "update_collisions"} =>
          \A j \in DOMAIN game'.bullets : \E i \in DOMAIN game.bullets :
             game'.bullets[j] = game.bullets[i]
     /\ pc = "update_collisions" =>
          \A j \in DOMAIN game'.bullets :
             /\ game'.bullets[j].y >= 0
             /\ game'.bullets[j].x >= 0
             /\ game'.bullets[j].x <= Px(SCREEN_WIDTH)]_vars

\* A volley fired in this frame has been moved up, and the bullet that was
\* in flight has left the screen and the collection.
C31_Witness ==
  /\ pc = "update_enemies"
  /\ dt > FrameDt
  /\ game.bullets # <<>>
  /\ \A j \in DOMAIN game.bullets :
       game.bullets[j].y = Px(SCREEN_HEIGHT - 50) - Travel(game.bullet_speed, dt)
  /\ game.enemies = LastStand(game).enemies

\* C32: while the game is over, the entry stored for the session at the
\* Playing->GameOver transition carries the score the game holds and shows
\* as the final score.
C32_FinalScoreStored ==
  (game.state = "GameOver" /\ game.player_name # <<>> /\ game.score > 0) =>
    \E k \in DOMAIN game.highscores :
       game.highscores[k] = [name |-> game.player_name, score |-> game.score]

OnScreen(p) == LeftEnd(p) <= p.x /\ p.x <= RightEnd(p)

\* C33: base_width/2 <= player.x <= SCREEN_WIDTH - base_width/2 in every
\* state, also right after the upgrade of a cleared wave: no step takes a
\* player that is inside that range out of it.
C33_PlayerOnScreen ==
  [][OnScreen(game.player) => OnScreen(game'.player)]_vars

\* C34: every enemy of a freshly generated wave, whatever its shape, has
\* 20 < x < SCREEN_WIDTH - 20 and y <= SCREEN_HEIGHT - DEFENDER_LINE, so
\* that the first frame of the wave, with a frame time of 0, finds no enemy
\* at an edge and none past the defender line.
C34_FreshWaveInside ==
  [][Spawn =>
       /\ \A i \in DOMAIN game'.enemies :
            /\ LEFT_EDGE < game'.enemies[i].x
            /\ game'.enemies[i].x < RIGHT_EDGE
            /\ game'.enemies[i].y <= LINE_Y
       /\ ~EdgeReached(game'.enemies)
       /\ ~Breached(game'.enemies)]_vars

\* C35: with a frame time >= 0, a frame in which the formation moved
\* horizontally leaves every live enemy with 20 <= x <= SCREEN_WIDTH - 20:
\* update_enemies leaves every enemy there, and the rest of the frame moves
\* no enemy.
C35_FormationInsideMargins ==
  [][/\ (FormationStep /\ game.descent_distance = 0 /\ dt >= 0) =>
          \A i \in DOMAIN game'.enemies :
             LEFT_EDGE <= game'.enemies[i].x /\ game'.enemies[i].x <= RIGHT_EDGE
     /\ (CollisionStep /\ game'.wave_number = game.wave_number) =>
          \A j \in DOMAIN game'.enemies : \E i \in DOMAIN game.enemies :
             game'.enemies[j].x = game.enemies[i].x]_vars

\* The first frame of the V formation has moved the formation and put its
\* outermost enemies, generated beyond the margins, on the margins.
C35_Witness ==
  /\ pc = "update_collisions"
  /\ dt > 0
  /\ game.wave_number = 2
  /\ Len(game.enemies) = Len(GenerateVFormation(2))
  /\ game.descent_distance = Px(DESCENT_STEP)
  /\ \E i, j \in DOMAIN game.enemies :
        /\ i # j
        /\ game.enemies[i].x = LEFT_EDGE /\ game.enemies[j].x = LEFT_EDGE
        /\ game.enemies[i].y = game.enemies[j].y

\* C36: the formation moves vertically as a rigid body.  A call of
\* update_enemies lowers every live enemy by one and the same amount, which
\* is never negative when the frame time is not; no other step of a session
\* changes the y of an enemy that stays alive.  So the difference of two
\* live enemies' y never changes.
C36_RigidDescent ==
  [][/\ FormationStep =>
          /\ SameEnemies
          /\ \E d \in {IF game.enemies = <<>> THEN 0
                       ELSE game'.enemies[1].y - game.enemies[1].y} :
                /\ dt >= 0 => d >= 0
                /\ \A i \in DOMAIN game.enemies :
                      game'.enemies[i].y = game.enemies[i].y + d
     /\ (~FormationStep /\ ~Spawn) =>
          \A j \in DOMAIN game'.enemies : \E i \in DOMAIN game.enemies :
             /\ game'.enemies[j].y = game.enemies[i].y
             /\ game'.enemies[j].x = game.enemies[i].x
             /\ game'.enemies[j].direction = game.enemies[i].direction]_vars

\* A frame with a positive frame time has lowered a formation with enemies
\* of both directions on several rows by a part of the 40 px step.
C36_Witness ==
  /\ pc = "update_collisions"
  /\ dt > 0
  /\ game.descent_distance > 0
  /\ game.descent_distance < Px(DESCENT_STEP)
  /\ \E i, j \in DOMAIN game.enemies :
        /\ game.enemies[i].y # game.enemies[j].y
        /\ game.enemies[i].direction # game.enemies[j].direction

(***************************************************************************)
(* Properties tying the difficulty and the player's upgrades to the wave.  *)
(***************************************************************************)
\* C37: in every state enemy_speed = INITIAL_ENEMY_SPEED +
\* SPEED_INCREASE_PER_WAVE * (wave_number - 1): 150 in wave 1 and 20 more
\* with each wave, back to 150 with wave 1 at a reset and at a start.
C37_SpeedByWave ==
  game.enemy_speed =
    INITIAL_ENEMY_SPEED + SPEED_INCREASE_PER_WAVE * (game.wave_number - 1)

\* A wave clear has taken a session beyond the last wave the sessions of the
\* model begin in.
C37_Witness ==
  /\ game.state = "Playing"
  /\ game.wave_number = MaxWave + 1
  /\ game.enemy_speed = INITIAL_ENEMY_SPEED + SPEED_INCREASE_PER_WAVE * MaxWave

\* C38: in every state available_shots = min(wave_number, MAX_SHOTS) and
\* base_width = INITIAL_BASE_WIDTH + BASE_WIDTH_INCREASE * (available_shots - 1).
C38_UpgradesByWave ==
  /\ game.player.available_shots = Min(game.wave_number, MAX_SHOTS)
  /\ game.player.base_width =
       Px(INITIAL_BASE_WIDTH) + Px(BASE_WIDTH_INCREASE) * (game.player.available_shots - 1)

\* The clear of a wave later than the third has left the player with the
\* three shots and the width it had.
C38_Witness ==
  /\ game.state = "Playing"
  /\ game.wave_number > MAX_SHOTS + 1
  /\ pc = "handle_input"
  /\ input_frames > 0
  /\ game.player.available_shots = MAX_SHOTS
  /\ game.player.base_width = Px(INITIAL_BASE_WIDTH) + 2 * Px(BASE_WIDTH_INCREASE)

(***************************************************************************)
(* Properties of progress.                                                 *)
(***************************************************************************)
\* The numbers of enemies a wave-1 formation can be left with by the shots
\* of a session.
Remaining == {Len(GenerateWave(1, NoRng)) - k : k \in 0..MaxInputFrames}

\* C39: when no enemy is destroyed any more and the Playing frames with
\* dt > 0 keep arriving, the game reaches GameOver: a session in Playing
\* with n enemies either loses one of them or ends.
C39_GameEnds ==
  \A n \in Remaining :
     (game.state = "Playing" /\ Len(game.enemies) = n)
       ~> (game.state = "GameOver" \/ Len(game.enemies) # n)

\* The whole formation has come down to the defender line, reversal by
\* reversal, and has ended the session.
C39_Witness ==
  /\ game.state = "GameOver"
  /\ Len(game.enemies) = Len(GenerateWave(1, NoRng))
  /\ \E i \in DOMAIN game.enemies :
        /\ game.enemies[i].y > LINE_Y
        /\ game.enemies[i].y <= LINE_Y + Px(DESCENT_STEP)

====
